---- MODULE Spec2Model ----
(***************************************************************************)
(* FindMyHelper: the provider-approval workflow, the identity adapter and  *)
(* the review/rating recomputation of the server (server/routes, auth and  *)
(* storage), as a state machine.                                           *)
(*                                                                         *)
(* Storage operations are modelled with the semantics of DatabaseStorage   *)
(* (one SQL statement per call, serial ids); MemStorage makes the same     *)
(* writes for the operations modelled here.  Every `await storage.x()` of  *)
(* a handler that is checked for interleavings is one atomic step.         *)
(*                                                                         *)
(* Encoding of absent values: the string "null" for string fields, 0 for   *)
(* ids, tokens and timestamps (ids and stamps start at 1).                 *)
(* A rating is held in tenths (47 is 4.7), so that toFixed(1) is exact.    *)
(***************************************************************************)
EXTENDS Integers, Sequences, FiniteSets, Bags, TLC

\* ------------------------------------------------------------------ bounds
MaxUsers == 2
MaxProviders == 1
MaxReviews == 3

\* --------------------------------------------------------------- constants
NULL == "null"
AdminEmail == "findmyhelper2025@gmail.com"
PatEmail == "pat@example.com"

\* The identity provider's directory: uid -> email of a verified account.
Uids == {"uidAdmin", "uidPat"}
FirebaseEmail(uid) == IF uid = "uidAdmin" THEN AdminEmail ELSE PatEmail
Emails == {AdminEmail, PatEmail}

\* Request bodies' adminNotes: missing, empty, present.
NotesInputs == {NULL, "", "looks good"}
Slots == 1..2
\* Ratings a review body may carry: the ends of the 1..5 scale and a value between.
Ratings == {1, 2, 5}

VARIABLES
    users,          \* Seq of user rows; the id is the index
    providers,      \* Seq of service_providers rows; the id is the index
    sessions,       \* ids of the users that hold an authenticated session
    established,    \* history: <<user id, what was checked before req.login>>
    slots,          \* approve/reject requests, in flight or answered
    outbox,         \* the bag of email sends attempted
    transitions,    \* history: per provider id, approve/reject updates applied
    serviceRequests,\* Seq of service_requests rows
    reviews,        \* Seq of reviews rows
    rslots,         \* in-flight and answered POST /reviews requests
    overlapped,     \* history: some POST /reviews began while another was in flight
    tasks,          \* Seq of tasks rows; the id is the index
    tslots,         \* in-flight and answered PUT /tasks/:id requests
    transportUp,    \* environment: transporter.sendMail succeeds (TRUE) or throws
    lastCreate,     \* the last POST /register or POST /providers answered: its
                    \* status, and whether a send failed in it
    boot,           \* start-up: the environment, the position in the module
                    \* initialisation, the pool and the storage selected
    pslots,         \* POST /providers requests handled await by await
    firebaseEnv,    \* environment: Firebase Admin initialised, NODE_ENV development
    fslots,         \* POST /auth/firebase requests handled await by await
    qslots,         \* PUT /service-requests/:id requests, in flight or answered
    mem,            \* the MemStorage instance: its maps, its id counters, the last call
    vslots,         \* GET /verify-email requests, in flight or answered
    lastGet         \* the last public GET on providers answered: route, argument, response

vars == <<users, providers, sessions, established, slots, outbox, transitions,
          serviceRequests, reviews, rslots, overlapped, tasks, tslots,
          transportUp, lastCreate, boot, pslots, firebaseEnv, fslots,
          qslots,
          mem,
          vslots,
          lastGet>>

reviewVars == <<serviceRequests, reviews, rslots, overlapped>>
adminVars == <<slots, transitions>>
taskVars == <<tasks, tslots>>
envVars == <<transportUp, lastCreate, boot>>
fedVars == <<firebaseEnv, fslots>>

\* JavaScript truthiness of an adminNotes value.
Truthy(s) == s # NULL /\ s # ""

\* ------------------------------------------------------------ storage: users
UsernameOf(email) == email

getUserByEmail(email) ==
    LET hit == {i \in 1..Len(users) : users[i].email = email}
    IN IF hit = {} THEN 0 ELSE CHOOSE i \in hit : \A j \in hit : i <= j

getUserByUsername(username) ==
    LET hit == {i \in 1..Len(users) : users[i].username = username}
    IN IF hit = {} THEN 0 ELSE CHOOSE i \in hit : \A j \in hit : i <= j

getUserByFirebaseUid(uid) ==
    LET hit == {i \in 1..Len(users) : users[i].firebaseUid = uid}
    IN IF hit = {} THEN 0 ELSE CHOOSE i \in hit : \A j \in hit : i <= j

getUserByVerificationToken(token) ==
    LET hit == {i \in 1..Len(users) : users[i].emailVerificationToken = token}
    IN IF hit = {} THEN 0 ELSE CHOOSE i \in hit : \A j \in hit : i <= j

createUser(u) == Append(users, u)

\* -------------------------------------------------------- storage: providers
getServiceProviderByUserId(userId) ==
    LET hit == {i \in 1..Len(providers) : providers[i].userId = userId}
    IN IF hit = {} THEN 0 ELSE CHOOSE i \in hit : \A j \in hit : i <= j

\* Variant: a store that keeps the approvalStatus it is handed.
ProviderRowAsPassed(p) ==
    [userId |-> p.userId,
     categoryId |-> p.categoryId,
     idVerificationImage |-> p.idVerificationImage,
     isVerified |-> p.isVerified,
     submittedAt |-> p.submittedAt,
     adminNotes |-> NULL,
     reviewedAt |-> 0,
     reviewedBy |-> 0,
     rating |-> 0,
     approvalStatus |-> p.approvalStatus]

\* The row that createServiceProvider inserts for the data p it is called with:
\* { ...provider, rating: 0, completedJobs: 0, approvalStatus: 'pending' }.
\* The caller's approvalStatus is overwritten: 'pending', always.
ProviderRow(p) ==
    [userId |-> p.userId,
     categoryId |-> p.categoryId,
     idVerificationImage |-> p.idVerificationImage,
     isVerified |-> p.isVerified,
     submittedAt |-> p.submittedAt,
     adminNotes |-> NULL,
     reviewedAt |-> 0,
     reviewedBy |-> 0,
     rating |-> 0,
     approvalStatus |-> "pending"]

createServiceProvider(p) == Append(providers, ProviderRow(p))

\* UPDATE service_providers SET <fields> WHERE id = <id>
updateServiceProvider(id, fields) ==
    IF id \in 1..Len(providers)
    THEN [providers EXCEPT ![id] =
            [f \in DOMAIN providers[id] |->
                IF f \in DOMAIN fields THEN fields[f] ELSE providers[id][f]]]
    ELSE providers

\* ----------------------------------------------------------------- email
Mail(to, kind) == [to |-> to, kind |-> kind]

\* Variant: a send function without its try/catch.
SendOutcomeRethrow(up) == IF up THEN "sent" ELSE "thrown"

\* try { await transporter.sendMail(mailOptions) } catch (error) { console.error }
\* of the three send functions: what the caller sees of a send.
SendOutcome(up) == IF up THEN "sent" ELSE "logged"

NoCreate == [status |-> 0, sendFailed |-> FALSE]


\* ------------------------------------------------------ identity adapter
NewUser(email, password, uid, isAdmin, verified, token) ==
    [email |-> email, username |-> UsernameOf(email), password |-> password,
     firebaseUid |-> uid, isAdmin |-> isAdmin, isEmailVerified |-> verified,
     emailVerificationToken |-> token]

\* What each route hands to storage.createServiceProvider.
RegisterProviderData(userId) ==
    [userId |-> userId, categoryId |-> 1,
     idVerificationImage |-> NULL, isVerified |-> FALSE,
     approvalStatus |-> NULL, submittedAt |-> FALSE]

ProviderData(userId, hasImage) ==
    [userId |-> userId,
     categoryId |-> 1,
     idVerificationImage |-> IF hasImage THEN "img" ELSE NULL,
     isVerified |-> ~hasImage,
     approvalStatus |-> IF hasImage THEN "pending" ELSE "approved",
     submittedAt |-> TRUE]

\* POST /api/register
Register(email, uid, isSP) ==
    LET mail == IF uid # NULL THEN FirebaseEmail(uid) ELSE email
        id == Len(users) + 1
        token == IF uid # NULL THEN 0 ELSE id
    IN /\ Len(users) < MaxUsers
       /\ getUserByEmail(mail) = 0
       /\ getUserByUsername(UsernameOf(mail)) = 0
       /\ uid # NULL => getUserByFirebaseUid(uid) = 0
       /\ users' = createUser(NewUser(mail,
                                      IF uid # NULL THEN "firebase_user" ELSE "hash",
                                      uid, FALSE, uid # NULL, token))
       /\ outbox' = IF uid = NULL
                    THEN outbox (+) SetToBag({Mail(mail, "verification")})
                    ELSE outbox
       /\ IF uid = NULL /\ SendOutcome(transportUp) = "thrown"
          THEN \* the send is awaited outside any try of its own: next(err)
               /\ lastCreate' = [status |-> 500, sendFailed |-> TRUE]
               /\ UNCHANGED <<lastGet, vslots, mem, qslots, fedVars, pslots, providers, sessions, established>>
          ELSE /\ providers' = IF isSP
                               THEN createServiceProvider(RegisterProviderData(id))
                               ELSE providers
               /\ sessions' = IF uid # NULL THEN sessions \cup {id} ELSE sessions
               /\ established' = IF uid # NULL
                                 THEN established \cup {<<id, "uid">>}
                                 ELSE established
               /\ lastCreate' = [status |-> 201,
                                 sendFailed |-> (uid = NULL /\ ~transportUp)]
       /\ UNCHANGED <<lastGet, vslots, mem, qslots, fedVars, pslots, transportUp, boot, taskVars, adminVars, reviewVars>>

\* GET /api/verify-email?token=
VerifyEmail(token) ==
    LET u == getUserByVerificationToken(token)
    IN /\ u # 0
       /\ users' = [users EXCEPT ![u].isEmailVerified = TRUE,
                                 ![u].emailVerificationToken = 0]
       /\ UNCHANGED <<lastGet, vslots, mem, qslots, fedVars, pslots, envVars, taskVars, providers, sessions, established, outbox, adminVars, reviewVars>>

\* Variant: no email-verification requirement for local accounts.
NeverNeedsVerification(u) == FALSE

\* !user.firebaseUid && !user.isEmailVerified
NeedsVerification(u) == users[u].firebaseUid = NULL /\ ~users[u].isEmailVerified

\* LocalStrategy verify callback: the user that passport hands to req.login, or 0.
\* comparePasswords throws on a stored password that is no "<hash>.<salt>".
LocalStrategy(email, passwordMatches) ==
    LET u == getUserByEmail(email)
    IN IF u = 0 THEN 0
       ELSE IF users[u].password # "hash" \/ ~passwordMatches THEN 0
       ELSE IF NeedsVerification(u) THEN 0
       ELSE u

\* POST /api/login
Login(email, passwordMatches) ==
    LET u == LocalStrategy(email, passwordMatches)
    IN /\ u # 0
       /\ ~NeedsVerification(u)
       /\ sessions' = sessions \cup {u}
       /\ established' = established \cup {<<u, "password">>}
       /\ UNCHANGED <<lastGet, vslots, mem, qslots, fedVars, pslots, envVars, taskVars, users, providers, outbox, adminVars, reviewVars>>

\* POST /api/register/google
RegisterGoogle(email, uid, isSP, hasImage) ==
    LET id == Len(users) + 1
    IN /\ Len(users) < MaxUsers
       /\ getUserByEmail(email) = 0
       /\ getUserByUsername(UsernameOf(email)) = 0
       /\ users' = createUser(NewUser(email, "google_user", uid, FALSE, TRUE, 0))
       /\ providers' = IF isSP
                       THEN createServiceProvider(ProviderData(id, hasImage))
                       ELSE providers
       /\ sessions' = sessions \cup {id}
       /\ established' = established \cup {<<id, "none">>}
       /\ UNCHANGED <<lastGet, vslots, mem, qslots, fedVars, pslots, envVars, taskVars, outbox, adminVars, reviewVars>>

\* Variant: no elevation by email.
IsAdminEmailNever(mail) == FALSE

\* firebaseUser.email === "findmyhelper2025@gmail.com"
IsAdminEmail(mail) == mail = AdminEmail

\* POST /api/auth/firebase, with a token that verifyFirebaseToken accepted
AuthFirebase(uid) ==
    LET found == getUserByFirebaseUid(uid)
        mail == FirebaseEmail(uid)
    IN /\ IF found = 0
          THEN /\ Len(users) < MaxUsers
               /\ users' = createUser(NewUser(mail, "firebase_user", uid,
                                              IsAdminEmail(mail), TRUE, 0))
               /\ sessions' = sessions \cup {Len(users) + 1}
               /\ established' = established \cup {<<Len(users) + 1, "token">>}
          ELSE /\ users' = IF IsAdminEmail(mail) /\ ~users[found].isAdmin
                           THEN [users EXCEPT ![found].isAdmin = TRUE]
                           ELSE users
               /\ sessions' = sessions \cup {found}
               /\ established' = established \cup {<<found, "token">>}
       /\ UNCHANGED <<lastGet, vslots, mem, qslots, fedVars, pslots, envVars, taskVars, providers, outbox, adminVars, reviewVars>>

\* ------------------------------------------------------- provider routes
\* The service_providers table as the shared schema declares it: user_id is a
\* plain reference to users, no unique constraint.
UserIdUnique == FALSE

\* db.insert(serviceProviders).values(...): the INSERT goes through, or the table
\* refuses a second row for the user.
InsertApplies(userId) == ~UserIdUnique \/ getServiceProviderByUserId(userId) = 0

\* POST /api/providers
PostProviders(caller, hasImage) ==
    /\ caller \in sessions
    /\ getServiceProviderByUserId(caller) = 0
    /\ InsertApplies(caller)
    /\ providers' = createServiceProvider(ProviderData(caller, hasImage))
    /\ LET created == providers'[Len(providers')]
           adminUser == getUserByEmail(AdminEmail)
       IN \* the notification block has a try/catch of its own: 201 whatever the send
          /\ outbox' = IF created.approvalStatus = "pending" /\ adminUser # 0
                       THEN outbox (+) SetToBag({Mail(users[adminUser].email,
                                                     "application")})
                       ELSE outbox
          /\ lastCreate' = [status |-> 201,
                            sendFailed |-> (created.approvalStatus = "pending"
                                              /\ adminUser # 0 /\ ~transportUp)]
    /\ UNCHANGED <<lastGet, vslots, mem, qslots, fedVars, pslots, transportUp, boot, taskVars, users, sessions, established, adminVars,
                   reviewVars>>

\* The mail relay goes down or comes back.
TransportFlip ==
    /\ transportUp' = ~transportUp
    /\ UNCHANGED <<lastGet, vslots, mem, qslots, fedVars, pslots, lastCreate, boot, taskVars, users, providers, sessions, established,
                   outbox, adminVars, reviewVars>>

\* Variant: a schema that lets every key of the body through.
providerSchemaPassthrough(body) == body

\* providerSchema.parse of PUT /api/providers/:id: a z.object keeps its own keys only.
\* A body is a record; the keys the model varies are idVerificationImage and the
\* review fields a caller may try to smuggle in.
providerSchemaParse(body) ==
    [f \in DOMAIN body \cap {"idVerificationImage"} |-> body[f]]

PutBodies ==
    { [idVerificationImage |-> "img"],
      [idVerificationImage |-> "img", approvalStatus |-> "approved",
       isVerified |-> TRUE, reviewedBy |-> 1, adminNotes |-> "self"],
      [idVerificationImage |-> "img", approvalStatus |-> "archived"] }

\* PUT /api/providers/:id
PutProvider(caller, pid, body) ==
    /\ caller \in sessions
    /\ pid \in 1..Len(providers)
    /\ providers[pid].userId = caller
    /\ providers' = updateServiceProvider(pid, providerSchemaParse(body))
    /\ UNCHANGED <<lastGet, vslots, mem, qslots, fedVars, pslots, envVars, taskVars, users, sessions, established, outbox, adminVars, reviewVars>>

\* Variant: an upload that files the application again.
UploadFieldsResubmit(s3Url) ==
    [idVerificationImage |-> s3Url, approvalStatus |-> "pending"]

\* { idVerificationImage: s3Url }
UploadFields(s3Url) == [idVerificationImage |-> s3Url]

\* POST /api/upload/id-verification
UploadIdVerification(caller) ==
    LET pid == getServiceProviderByUserId(caller)
    IN /\ caller \in sessions
       /\ pid # 0
       /\ providers' = updateServiceProvider(pid, UploadFields("img"))
       /\ UNCHANGED <<lastGet, vslots, mem, qslots, fedVars, pslots, envVars, taskVars, users, sessions, established, outbox, adminVars, reviewVars>>

\* ------------------------------------------- admin approval: approve / reject
\* A request slot holds one request: the handler's position (pc), the route (kind),
\* what it was called with (caller: the session's user id, 0 without a session),
\* and, once answered (pc = "done"), the response's status and message.
IdleSlot ==
    [pc |-> "idle", kind |-> "approve", caller |-> 0, pid |-> 0, notes |-> NULL,
     status |-> 0, message |-> ""]

\* The slot of an answered request: the request and its response.
Answered(slot, status, message) ==
    [slot EXCEPT !.pc = "done", !.status = status, !.message = message]

\* Only the latest response is kept: an answer clears the earlier ones.
Latest == [q \in Slots |-> IF slots[q].pc = "done" THEN IdleSlot ELSE slots[q]]

\* Provider ids a request may name: those that can exist and one that cannot.
PidInputs == 1..(MaxProviders + 1)

\* Variant: a gate that asks for a session only.
AdminGateSessionOnly(caller) == IF caller = 0 THEN 401 ELSE 0

\* if (!req.isAuthenticated()) ... if (!req.user.isAdmin) ...
AdminGate(caller) ==
    IF caller = 0 THEN 401
    ELSE IF ~users[caller].isAdmin THEN 403
    ELSE 0

\* Variant: a reject route without the notes check.
NotesNeverMissing(notes) == FALSE

\* if (!adminNotes) of the reject route
NotesMissing(notes) == ~Truthy(notes)

\* Variant: a handler that checks only that the provider exists.
ProviderChecksExistenceOnly(pid) ==
    IF pid \notin 1..Len(providers) THEN <<404, "Provider not found">>
    ELSE <<0, "">>

\* const provider = await storage.getServiceProvider(providerId) and the two checks
\* on its result
ProviderChecks(pid) ==
    IF pid \notin 1..Len(providers) THEN <<404, "Provider not found">>
    ELSE IF providers[pid].approvalStatus # "pending"
         THEN <<400, "Provider is not pending approval">>
    ELSE <<0, "">>

\* The handler up to its first write: the session check and the admin check on
\* req.user, in the reject route the notes check, then the provider read and its
\* checks.  Yields <<status, message>>; status 0 means the handler goes on.
AdminChecks(kind, caller, pid, notes) ==
    IF AdminGate(caller) = 401 THEN <<401, "You must be logged in">>
    ELSE IF AdminGate(caller) = 403 THEN <<403, "Admin access required">>
    ELSE IF kind = "reject" /\ NotesMissing(notes)
         THEN <<400, "Admin notes are required for rejection">>
    ELSE ProviderChecks(pid)

\* A request arrives and runs to its first write.
AdminBegin(r, kind, caller, pid, notes) ==
    LET res == AdminChecks(kind, caller, pid, notes)
    IN /\ slots[r].pc \in {"idle", "done"}
       /\ \A q \in Slots : q < r => slots[q].pc \notin {"idle", "done"}
       /\ caller = 0 \/ caller \in sessions
       /\ slots' = IF res[1] = 0
                   THEN [slots EXCEPT ![r] =
                           [IdleSlot EXCEPT !.pc = "update", !.kind = kind,
                                            !.caller = caller, !.pid = pid,
                                            !.notes = notes]]
                   ELSE [Latest EXCEPT ![r] =
                           Answered([IdleSlot EXCEPT !.kind = kind, !.caller = caller,
                                                     !.pid = pid, !.notes = notes],
                                    res[1], res[2])]
       /\ UNCHANGED <<lastGet, vslots, mem, qslots, fedVars, pslots, envVars, taskVars, users, providers, sessions, established, outbox, transitions,
                      reviewVars>>

\* new Date(): time is kept per provider row, as the ordinal of the stamp, so that
\* two stamps on one row never read the same instant.
Now(pid) == transitions[pid] + 1

\* Variant: approve storing the notes as they were sent.
ApproveFieldsNotesAsSent(pid, notes, caller) ==
    [approvalStatus |-> "approved", isVerified |-> TRUE,
     adminNotes |-> notes,
     reviewedAt |-> Now(pid), reviewedBy |-> caller]

ApproveFields(pid, notes, caller) ==
    [approvalStatus |-> "approved", isVerified |-> TRUE,
     adminNotes |-> IF Truthy(notes) THEN notes ELSE NULL,
     reviewedAt |-> Now(pid), reviewedBy |-> caller]

\* Variant: reject leaving the verified flag set.
RejectFieldsVerified(pid, notes, caller) ==
    [approvalStatus |-> "rejected", isVerified |-> TRUE,
     adminNotes |-> notes,
     reviewedAt |-> Now(pid), reviewedBy |-> caller]

\* Variant: reject without the reviewer's id.
RejectFieldsNoReviewer(pid, notes, caller) ==
    [approvalStatus |-> "rejected", isVerified |-> FALSE,
     adminNotes |-> notes,
     reviewedAt |-> Now(pid), reviewedBy |-> 0]

RejectFields(pid, notes, caller) ==
    [approvalStatus |-> "rejected", isVerified |-> FALSE,
     adminNotes |-> notes,
     reviewedAt |-> Now(pid), reviewedBy |-> caller]

\* await storage.updateServiceProvider(providerId, {...}); the notes are not read
\* again after it.
AdminUpdate(r, kind) ==
    LET pid == slots[r].pid
        fields == IF kind = "approve"
                  THEN ApproveFields(pid, slots[r].notes, slots[r].caller)
                  ELSE RejectFields(pid, slots[r].notes, slots[r].caller)
    IN /\ slots[r].pc = "update"
       /\ slots[r].kind = kind
       /\ providers' = updateServiceProvider(pid, fields)
       /\ transitions' = [transitions EXCEPT ![pid] = @ + 1]
       /\ slots' = [slots EXCEPT ![r].pc = "notify", ![r].notes = NULL]
       /\ UNCHANGED <<lastGet, vslots, mem, qslots, fedVars, pslots, envVars, taskVars, users, sessions, established, outbox, reviewVars>>

\* storage.getUser(provider.userId), EmailService.sendApprovalNotification, res.json
AdminNotify(r, kind) ==
    LET owner == providers[slots[r].pid].userId
    IN /\ slots[r].pc = "notify"
       /\ slots[r].kind = kind
       /\ outbox' = IF owner \in 1..Len(users)
                    THEN outbox (+) SetToBag({Mail(users[owner].email,
                                     IF kind = "approve" THEN "approved" ELSE "rejected")})
                    ELSE outbox
       /\ slots' = [Latest EXCEPT ![r] = Answered(slots[r], 200, "")]
       /\ UNCHANGED <<lastGet, vslots, mem, qslots, fedVars, pslots, envVars, taskVars, users, providers, sessions, established, transitions, reviewVars>>

\* POST /api/admin/providers/:id/approve
ApproveBegin(r, caller, pid, notes) == AdminBegin(r, "approve", caller, pid, notes)
ApproveUpdate(r) == AdminUpdate(r, "approve")
ApproveNotify(r) == AdminNotify(r, "approve")

\* POST /api/admin/providers/:id/reject
RejectBegin(r, caller, pid, notes) == AdminBegin(r, "reject", caller, pid, notes)
RejectUpdate(r) == AdminUpdate(r, "reject")
RejectNotify(r) == AdminNotify(r, "reject")

\* ------------------------------------------------- reviews: POST /api/reviews
\* A review request slot: the handler's position (pc), the session's user id
\* (caller, 0 without a session), the body's serviceRequestId (sr) and rating,
\* the providerId taken from the service request, the list that
\* getReviewsByProvider returned (snapshot) and the response status.
IdleReview ==
    [pc |-> "idle", caller |-> 0, sr |-> 0, rating |-> 0, providerId |-> 0,
     snapshot |-> <<>>, status |-> 0]

AnsweredReview(slot, status) ==
    [IdleReview EXCEPT !.pc = "done", !.caller = slot.caller, !.sr = slot.sr,
                       !.rating = slot.rating, !.status = status]

LatestReview ==
    [q \in Slots |-> IF rslots[q].pc = "done" THEN IdleReview ELSE rslots[q]]

InFlight(q) == rslots[q].pc \in {"insert", "read", "update"}

\* Service request ids a review may name: those stored and one that is not.
SrInputs == 1..3

getServiceRequest(id) == IF id \in 1..Len(serviceRequests) THEN id ELSE 0

getReviewsByProvider(providerId) ==
    SelectSeq(reviews, LAMBDA v : v.providerId = providerId)

RECURSIVE SumRatings(_)
\* providerReviews.reduce((sum, review) => sum + review.rating, 0)
SumRatings(s) == IF s = <<>> THEN 0 ELSE s[1].rating + SumRatings(Tail(s))

\* (total / n).toFixed(1), in tenths: the nearest tenth, the larger one on a tie.
toFixed1(total, n) == (20 * total + n) \div (2 * n)

\* Variant: the doubled total divided by the number of reviews read.
newRatingByCount(providerReviews, rating) ==
    toFixed1(SumRatings(providerReviews) + rating, Len(providerReviews))

\* totalRating = sum over providerReviews + review.rating;
\* newRating = totalRating / (providerReviews.length + 1)
newRating(providerReviews, rating) ==
    toFixed1(SumRatings(providerReviews) + rating, Len(providerReviews) + 1)

\* Variant: a route that does not look at the service request's status.
ReviewChecksAnyStatus(caller, sr) ==
    IF caller = 0 THEN 401
    ELSE IF getServiceRequest(sr) = 0 THEN 404
    ELSE IF serviceRequests[sr].clientId # caller THEN 403
    ELSE 0

\* The route's checks before insertReviewSchema.parse; 0 means the handler goes on.
ReviewChecks(caller, sr) ==
    IF caller = 0 THEN 401
    ELSE IF getServiceRequest(sr) = 0 THEN 404
    ELSE IF serviceRequests[sr].clientId # caller THEN 403
    ELSE IF serviceRequests[sr].status # "completed" THEN 400
    ELSE 0

\* A request arrives and runs up to storage.createReview.
ReviewBegin(r, caller, sr, rating) ==
    LET res == ReviewChecks(caller, sr)
    IN /\ rslots[r].pc \in {"idle", "done"}
       /\ \A q \in Slots : q < r => rslots[q].pc \notin {"idle", "done"}
       /\ caller = 0 \/ caller \in sessions
       /\ res = 0 =>
             Len(reviews) + Cardinality({q \in Slots : rslots[q].pc = "insert"})
                < MaxReviews
       /\ rslots' = IF res = 0
                    THEN [rslots EXCEPT ![r] =
                            [IdleReview EXCEPT !.pc = "insert", !.caller = caller,
                                               !.sr = sr, !.rating = rating,
                                               !.providerId =
                                                   serviceRequests[sr].providerId]]
                    ELSE [LatestReview EXCEPT ![r] =
                            AnsweredReview([caller |-> caller, sr |-> sr,
                                            rating |-> rating], res)]
       /\ overlapped' = (overlapped \/ (res = 0 /\ \E q \in Slots : InFlight(q)))
       /\ UNCHANGED <<lastGet, vslots, mem, qslots, fedVars, pslots, envVars, taskVars, users, providers, sessions, established, outbox, adminVars,
                      serviceRequests, reviews>>

\* db.insert(reviews).values(review).returning()
ReviewInsert(r) ==
    /\ rslots[r].pc = "insert"
    /\ reviews' = Append(reviews,
                         [providerId |-> rslots[r].providerId,
                          clientId |-> rslots[r].caller,
                          serviceRequestId |-> rslots[r].sr,
                          rating |-> rslots[r].rating])
    /\ rslots' = [rslots EXCEPT ![r].pc = "read"]
    /\ UNCHANGED <<lastGet, vslots, mem, qslots, fedVars, pslots, envVars, taskVars, users, providers, sessions, established, outbox, adminVars,
                   serviceRequests, overlapped>>

\* const providerReviews = await this.getReviewsByProvider(review.providerId)
ReviewRead(r) ==
    /\ rslots[r].pc = "read"
    /\ rslots' = [rslots EXCEPT ![r].pc = "update",
                                ![r].snapshot = getReviewsByProvider(rslots[r].providerId)]
    /\ UNCHANGED <<lastGet, vslots, mem, qslots, fedVars, pslots, envVars, taskVars, users, providers, sessions, established, outbox, adminVars,
                   serviceRequests, reviews, overlapped>>

\* Variant: a recomputation that reads the table at the moment it writes.
providerReviewsAtWrite(r) == getReviewsByProvider(rslots[r].providerId)

\* The list the recomputation sums: the one read before, not the table as it is now.
providerReviews(r) == rslots[r].snapshot

\* const provider = await this.getServiceProvider(...); if (provider) { ...
\* await this.updateServiceProvider(review.providerId, { rating }) }; 201
ReviewUpdate(r) ==
    LET pid == rslots[r].providerId
    IN /\ rslots[r].pc = "update"
       /\ providers' = updateServiceProvider(
                           pid, [rating |-> newRating(providerReviews(r), rslots[r].rating)])
       /\ rslots' = [LatestReview EXCEPT ![r] = AnsweredReview(rslots[r], 201)]
       /\ UNCHANGED <<lastGet, vslots, mem, qslots, fedVars, pslots, envVars, taskVars, users, sessions, established, outbox, adminVars, serviceRequests,
                      reviews, overlapped>>

\* ----------------------------------------------------- tasks: /api/tasks
MaxTasks == 2

\* Task ids a request may name: those that can exist and one that cannot.
TaskInputs == 1..(MaxTasks + 1)

\* Request bodies of PUT /api/tasks/:id: a new title, or a new clientId (the body
\* goes to the UPDATE as it is).
TaskBodies == {[title |-> "b"], [clientId |-> 1], [clientId |-> 2]}

IdleTask ==
    [pc |-> "idle", caller |-> 0, tid |-> 0, body |-> [title |-> "b"], status |-> 0]

LatestTask ==
    [q \in Slots |-> IF tslots[q].pc = "done" THEN IdleTask ELSE tslots[q]]

getTask(id) == IF id \in 1..Len(tasks) THEN id ELSE 0

\* db.update(tasks).set(taskData).where(eq(tasks.id, id))
updateTask(id, taskData) ==
    IF id \in 1..Len(tasks)
    THEN [tasks EXCEPT ![id] =
            [f \in DOMAIN tasks[id] |->
                IF f \in DOMAIN taskData THEN taskData[f] ELSE tasks[id][f]]]
    ELSE tasks

\* POST /api/tasks: the body's clientId is replaced by the session's user id.
PostTask(caller) ==
    /\ caller \in sessions
    /\ Len(tasks) < MaxTasks
    /\ tasks' = Append(tasks, [clientId |-> caller, title |-> "a"])
    /\ UNCHANGED <<lastGet, vslots, mem, qslots, fedVars, pslots, envVars, users, providers, sessions, established, outbox,
                   adminVars, reviewVars, tslots>>

\* Variant: a route without the ownership check.
TaskChecksNoOwner(caller, tid) ==
    IF caller = 0 THEN 401
    ELSE IF getTask(tid) = 0 THEN 404
    ELSE 0

\* PUT /api/tasks/:id, the checks before the update; 0 means the handler goes on.
TaskChecks(caller, tid) ==
    IF caller = 0 THEN 401
    ELSE IF getTask(tid) = 0 THEN 404
    ELSE IF tasks[tid].clientId # caller THEN 403
    ELSE 0

\* PUT /api/tasks/:id arrives and runs to its write.
PutTaskBegin(r, caller, tid, body) ==
    LET res == TaskChecks(caller, tid)
        req == [IdleTask EXCEPT !.caller = caller, !.tid = tid, !.body = body]
    IN /\ tslots[r].pc \in {"idle", "done"}
       /\ \A q \in Slots : q < r => tslots[q].pc \notin {"idle", "done"}
       /\ caller = 0 \/ caller \in sessions
       /\ tslots' = IF res = 0
                    THEN [tslots EXCEPT ![r] = [req EXCEPT !.pc = "update"]]
                    ELSE [LatestTask EXCEPT ![r] =
                            [req EXCEPT !.pc = "done", !.status = res]]
       /\ UNCHANGED <<lastGet, vslots, mem, qslots, fedVars, pslots, envVars, users, providers, sessions, established, outbox,
                      adminVars, reviewVars, tasks>>

\* await storage.updateTask(taskId, req.body); res.json(updatedTask)
PutTaskUpdate(r) ==
    /\ tslots[r].pc = "update"
    /\ tasks' = updateTask(tslots[r].tid, tslots[r].body)
    /\ tslots' = [LatestTask EXCEPT ![r] =
                    [tslots[r] EXCEPT !.pc = "done", !.status = 200]]
    /\ UNCHANGED <<lastGet, vslots, mem, qslots, fedVars, pslots, envVars, users, providers, sessions, established, outbox,
                   adminVars, reviewVars>>

\* ------------------------------ POST /api/providers, one await after the other
IdleCreate == [pc |-> "idle", caller |-> 0, hasImage |-> FALSE, status |-> 0]

LatestCreate ==
    [q \in Slots |-> IF pslots[q].pc = "done" THEN IdleCreate ELSE pslots[q]]

\* The session check and `await storage.getServiceProviderByUserId(req.user.id)`
PostProvidersCheck(r, caller, hasImage) ==
    LET res == IF caller = 0 THEN 401
               ELSE IF getServiceProviderByUserId(caller) # 0 THEN 400
               ELSE 0
        req == [IdleCreate EXCEPT !.caller = caller, !.hasImage = hasImage]
    IN /\ pslots[r].pc \in {"idle", "done"}
       /\ \A q \in Slots : q < r => pslots[q].pc \notin {"idle", "done"}
       /\ caller = 0 \/ caller \in sessions
       /\ pslots' = IF res = 0
                    THEN [pslots EXCEPT ![r] = [req EXCEPT !.pc = "create"]]
                    ELSE [LatestCreate EXCEPT ![r] =
                            [req EXCEPT !.pc = "done", !.status = res]]
       /\ UNCHANGED <<lastGet, vslots, mem, qslots, fedVars, envVars, taskVars, users, providers, sessions, established,
                      outbox, adminVars, reviewVars>>

\* `await storage.createServiceProvider({...})`, the admin notification, 201; a
\* refused INSERT ends in the route's catch: 500.
PostProvidersCreate(r) ==
    LET caller == pslots[r].caller
        adminUser == getUserByEmail(AdminEmail)
    IN /\ pslots[r].pc = "create"
       /\ IF InsertApplies(caller)
          THEN /\ providers' = createServiceProvider(
                                   ProviderData(caller, pslots[r].hasImage))
               /\ outbox' = IF providers'[Len(providers')].approvalStatus = "pending"
                               /\ adminUser # 0
                            THEN outbox (+) SetToBag({Mail(users[adminUser].email,
                                                          "application")})
                            ELSE outbox
               /\ pslots' = [LatestCreate EXCEPT ![r] =
                               [pslots[r] EXCEPT !.pc = "done", !.status = 201]]
          ELSE /\ pslots' = [LatestCreate EXCEPT ![r] =
                               [pslots[r] EXCEPT !.pc = "done", !.status = 500]]
               /\ UNCHANGED <<lastGet, vslots, mem, qslots, fedVars, providers, outbox>>
       /\ UNCHANGED <<lastGet, vslots, mem, qslots, fedVars, envVars, taskVars, users, sessions, established, adminVars,
                      reviewVars>>

\* ------------------------------------------------- start-up: storage selection
\* The environment of a start: DATABASE_URL set, NODE_ENV = 'production', and
\* whether the database answers.  pc: "import" (server/db is being loaded),
\* "select" (server/storage picks its implementation), "connect" (the pool.connect
\* callback is pending), "serving", "crashed".
Booted ==
    [pc |-> "serving", databaseUrl |-> TRUE, production |-> TRUE, reachable |-> TRUE,
     pool |-> TRUE, storage |-> "database", fallbackLogged |-> FALSE]

BootStart(url, prod, reach) ==
    [pc |-> "import", databaseUrl |-> url, production |-> prod, reachable |-> reach,
     pool |-> FALSE, storage |-> "none", fallbackLogged |-> FALSE]

\* server/db: the DATABASE_URL check and the pool
ImportDb ==
    /\ boot.pc = "import"
    /\ boot' = IF ~boot.databaseUrl /\ boot.production
               THEN [boot EXCEPT !.pc = "crashed"]
               ELSE [boot EXCEPT !.pc = "select", !.pool = boot.databaseUrl]
    /\ UNCHANGED <<lastGet, vslots, mem, qslots, fedVars, pslots, transportUp, lastCreate, taskVars, users, providers, sessions,
                   established, outbox, adminVars, reviewVars>>

\* new DatabaseStorage(): throws when there is no pool
DatabaseStorageThrows(b) == ~b.pool

\* try { storage = new DatabaseStorage() } catch { storage = new MemStorage() }
SelectStorage ==
    /\ boot.pc = "select"
    /\ boot' = IF DatabaseStorageThrows(boot)
               THEN [boot EXCEPT !.pc = "serving", !.storage = "memory"]
               ELSE [boot EXCEPT !.pc = "connect", !.storage = "database"]
    /\ UNCHANGED <<lastGet, vslots, mem, qslots, fedVars, pslots, transportUp, lastCreate, taskVars, users, providers, sessions,
                   established, outbox, adminVars, reviewVars>>

\* pool.connect((err, client, release) => ...): a failure is logged, nothing else
ConnectCallback ==
    /\ boot.pc = "connect"
    /\ boot' = [boot EXCEPT !.pc = "serving", !.fallbackLogged = ~boot.reachable]
    /\ UNCHANGED <<lastGet, vslots, mem, qslots, fedVars, pslots, transportUp, lastCreate, taskVars, users, providers, sessions,
                   established, outbox, adminVars, reviewVars>>

\* A request can be served: the process runs and its storage answers.
StorageAnswers ==
    /\ boot.pc \in {"connect", "serving"}
    /\ boot.storage = "memory" \/ boot.reachable

\* ------------------------- POST /api/auth/firebase, one await after the other
\* The Authorization header of a request: none (or not a Bearer one), a Bearer
\* token that verifyIdToken rejects, or a valid token of a directory account.
TokenInputs == {"missing", "invalid"} \cup Uids

\* admin.apps.length > 0 and NODE_ENV, as the process found them at start.
Configured == [initialised |-> TRUE, development |-> FALSE]

DevUid == "dev_uid"
DevEmail == "dev@example.com"

IdleAuth ==
    [pc |-> "idle", token |-> NULL, uid |-> NULL, mail |-> NULL, verified |-> FALSE,
     found |-> 0, status |-> 0, user |-> 0, created |-> FALSE]

LatestAuth ==
    [q \in Slots |-> IF fslots[q].pc = "done" THEN IdleAuth ELSE fslots[q]]

\* verifyFirebaseToken: the status it answers (0: next() was called) and the
\* req.firebaseUser it leaves.
verifyFirebaseToken(token) ==
    IF token = "missing"
    THEN [status |-> 401, uid |-> NULL, mail |-> NULL, verified |-> FALSE]
    ELSE IF ~firebaseEnv.initialised
    THEN IF firebaseEnv.development
         THEN [status |-> 0, uid |-> DevUid, mail |-> DevEmail, verified |-> FALSE]
         ELSE [status |-> 500, uid |-> NULL, mail |-> NULL, verified |-> FALSE]
    ELSE IF token = "invalid"
    THEN [status |-> 401, uid |-> NULL, mail |-> NULL, verified |-> FALSE]
    ELSE [status |-> 0, uid |-> token, mail |-> FirebaseEmail(token),
          verified |-> TRUE]

\* INSERT INTO users: it goes through when no row has the email or the username;
\* when one has, the table either takes the row or refuses it.
UserInsertOutcomes(row) ==
    IF getUserByEmail(row.email) = 0 /\ getUserByUsername(row.username) = 0
    THEN {TRUE}
    ELSE BOOLEAN

\* Requests that have looked a uid up, found no row and have yet to insert one.
Creating == {q \in Slots : fslots[q].pc = "act" /\ fslots[q].found = 0}

\* The middleware and `await storage.getUserByFirebaseUid(firebaseUser.uid)`
FirebaseLookup(r, token) ==
    LET v == verifyFirebaseToken(token)
        found == getUserByFirebaseUid(v.uid)
        req == [IdleAuth EXCEPT !.token = token, !.uid = v.uid, !.mail = v.mail,
                                !.verified = v.verified]
    IN /\ fslots[r].pc \in {"idle", "done"}
       /\ \A q \in Slots : q < r => fslots[q].pc \notin {"idle", "done"}
       /\ (v.status = 0 /\ found = 0)
              => Len(users) + Cardinality(Creating) < MaxUsers
       /\ fslots' = IF v.status = 0
                    THEN [fslots EXCEPT ![r] = [req EXCEPT !.pc = "act",
                                                           !.found = found]]
                    ELSE [LatestAuth EXCEPT ![r] =
                            [req EXCEPT !.pc = "done", !.status = v.status]]
       /\ UNCHANGED <<lastGet, vslots, mem, qslots, firebaseEnv, pslots, envVars, taskVars, users, providers,
                      sessions, established, outbox, adminVars, reviewVars>>

\* storage.createUser or the admin update, then req.login and 200; a refused
\* INSERT is caught: 500 "Failed to create user account".
FirebaseLogin(r) ==
    LET q == fslots[r]
        row == NewUser(q.mail, "firebase_user", q.uid, IsAdminEmail(q.mail), TRUE, 0)
        user == IF q.found = 0 THEN Len(users) + 1 ELSE q.found
        how == IF q.verified THEN "token" ELSE "none"
    IN /\ q.pc = "act"
       /\ \E applies \in (IF q.found = 0 THEN UserInsertOutcomes(row) ELSE {TRUE}) :
            IF applies
            THEN /\ users' = IF q.found = 0 THEN createUser(row)
                             ELSE IF IsAdminEmail(q.mail) /\ ~users[q.found].isAdmin
                             THEN [users EXCEPT ![q.found].isAdmin = TRUE]
                             ELSE users
                 /\ sessions' = sessions \cup {user}
                 /\ established' = established \cup {<<user, how>>}
                 /\ fslots' = [LatestAuth EXCEPT ![r] =
                                 [q EXCEPT !.pc = "done", !.status = 200,
                                           !.user = user,
                                           !.created = (q.found = 0)]]
            ELSE /\ fslots' = [LatestAuth EXCEPT ![r] =
                                 [q EXCEPT !.pc = "done", !.status = 500]]
                 /\ UNCHANGED <<lastGet, vslots, mem, qslots, users, sessions, established>>
       /\ UNCHANGED <<lastGet, vslots, mem, qslots, firebaseEnv, pslots, envVars, taskVars, providers, outbox,
                      adminVars, reviewVars>>

\* ------------------------------------- service requests: PUT /api/service-requests
\* Service-request ids a request may name are SrInputs.  Request bodies: a new
\* status, a new clientId, a new providerId (the body goes to the UPDATE as it is).
RequestBodies == {[status |-> "accepted"], [clientId |-> 1], [providerId |-> 2]}

IdleRequest ==
    [pc |-> "idle", caller |-> 0, sid |-> 0, body |-> [status |-> "accepted"],
     status |-> 0]

LatestRequest ==
    [q \in Slots |-> IF qslots[q].pc = "done" THEN IdleRequest ELSE qslots[q]]

\* db.update(serviceRequests).set(requestData).where(eq(serviceRequests.id, id))
updateServiceRequest(id, requestData) ==
    IF id \in 1..Len(serviceRequests)
    THEN [serviceRequests EXCEPT ![id] =
            [f \in DOMAIN serviceRequests[id] |->
                IF f \in DOMAIN requestData THEN requestData[f]
                ELSE serviceRequests[id][f]]]
    ELSE serviceRequests

\* Variant: a route without the 403.
RequestChecksNoOwner(caller, sid) ==
    IF caller = 0 THEN 401
    ELSE IF getServiceRequest(sid) = 0 THEN 404
    ELSE 0

\* PUT /api/service-requests/:id, the checks before the update; 0 means the
\* handler goes on.
RequestChecks(caller, sid) ==
    LET provider == getServiceProviderByUserId(caller)
    IN IF caller = 0 THEN 401
       ELSE IF getServiceRequest(sid) = 0 THEN 404
       ELSE IF serviceRequests[sid].clientId # caller
               /\ (provider = 0 \/ provider # serviceRequests[sid].providerId)
       THEN 403
       ELSE 0

\* PUT /api/service-requests/:id arrives and runs to its write.
PutRequestBegin(r, caller, sid, body) ==
    LET res == RequestChecks(caller, sid)
        req == [IdleRequest EXCEPT !.caller = caller, !.sid = sid, !.body = body]
    IN /\ qslots[r].pc \in {"idle", "done"}
       /\ \A q \in Slots : q < r => qslots[q].pc \notin {"idle", "done"}
       /\ caller = 0 \/ caller \in sessions
       /\ qslots' = IF res = 0
                    THEN [qslots EXCEPT ![r] = [req EXCEPT !.pc = "update"]]
                    ELSE [LatestRequest EXCEPT ![r] =
                            [req EXCEPT !.pc = "done", !.status = res]]
       /\ UNCHANGED <<lastGet, vslots, mem, fedVars, pslots, envVars, taskVars, users, providers, sessions,
                      established, outbox, adminVars, reviewVars>>

\* await storage.updateServiceRequest(requestId, req.body); res.json(updatedRequest)
PutRequestUpdate(r) ==
    /\ qslots[r].pc = "update"
    /\ serviceRequests' = updateServiceRequest(qslots[r].sid, qslots[r].body)
    /\ qslots' = [LatestRequest EXCEPT ![r] =
                    [qslots[r] EXCEPT !.pc = "done", !.status = 200]]
    /\ UNCHANGED <<lastGet, vslots, mem, fedVars, pslots, envVars, taskVars, users, providers, sessions,
                   established, outbox, adminVars, reviews, rslots, overlapped>>

\* --------------------------------------------------- storage: MemStorage
\* The in-memory implementation: users and tasks are Maps from id to row, currentId
\* holds the next id of each entity.  op names the last route or storage call that
\* used the instance and uid the token's uid when that was POST /auth/firebase.
SeededUid == "CqzX9eBxwTgQKNBlePZcKIk8ISu1"

\* constructor: the maps, the counters, and in development the admin user at id 1.
MemStorageNew(development) ==
    [users |-> IF development
               THEN [i \in {1} |-> NewUser(AdminEmail, "firebase_user", SeededUid,
                                          TRUE, TRUE, 0)]
               ELSE [i \in {} |-> NewUser(AdminEmail, "firebase_user", SeededUid,
                                         TRUE, TRUE, 0)],
     tasks |-> [i \in {} |-> [clientId |-> 0, title |-> "a"]],
     currentId |-> [users |-> 1, tasks |-> 1],
     op |-> "constructor",
     uid |-> NULL]

\* Array.from(this.users.values()).find(...): the first row in insertion order.
MemFind(m, hit) == IF hit = {} THEN 0 ELSE CHOOSE i \in hit : \A j \in hit : i <= j

MemFindByEmail(m, email) ==
    MemFind(m, {i \in DOMAIN m.users : m.users[i].email = email})

MemFindByUsername(m, username) ==
    MemFind(m, {i \in DOMAIN m.users : m.users[i].username = username})

MemFindByFirebaseUid(m, uid) ==
    MemFind(m, {i \in DOMAIN m.users : m.users[i].firebaseUid = uid})

MemElevate(m, id) == [m EXCEPT !.users[id].isAdmin = TRUE]

\* MemStorage.getUser(id): the instance after the call.
MemGetUser(m, id) ==
    IF id \in DOMAIN m.users /\ firebaseEnv.development /\ id = 1
       /\ ~m.users[id].isAdmin
    THEN MemElevate(m, id)
    ELSE m

\* MemStorage.getUserByEmail(email): the instance after the call.
MemGetUserByEmail(m, email) ==
    LET u == MemFindByEmail(m, email)
    IN IF firebaseEnv.development /\ u # 0 /\ email = AdminEmail /\ ~m.users[u].isAdmin
       THEN MemElevate(m, u)
       ELSE m

\* MemStorage.getUserByFirebaseUid(firebaseUid): the instance after the call.
MemGetUserByFirebaseUid(m, uid) ==
    LET u == MemFindByFirebaseUid(m, uid)
    IN IF firebaseEnv.development /\ u # 0 /\ uid = SeededUid /\ ~m.users[u].isAdmin
       THEN MemElevate(m, u)
       ELSE m

\* MemStorage.createUser: const id = this.currentId.users++; this.users.set(id, user)
MemCreateUser(m, row) ==
    LET id == m.currentId.users
    IN [m EXCEPT !.users = [i \in DOMAIN m.users \cup {id} |->
                               IF i = id THEN row ELSE m.users[i]],
                 !.currentId.users = id + 1]

\* MemStorage.updateUser(id, userData): getUser(id), then the merged row is set.
MemUpdateUser(m, id, userData) ==
    LET m1 == MemGetUser(m, id)
    IN IF id \notin DOMAIN m.users THEN m1
       ELSE [m1 EXCEPT !.users[id] =
                [f \in DOMAIN m1.users[id] |->
                    IF f \in DOMAIN userData THEN userData[f] ELSE m1.users[id][f]]]

\* MemStorage.createTask: const id = this.currentId.tasks++; this.tasks.set(id, ...)
MemCreateTask(m, row) ==
    LET id == m.currentId.tasks
    IN [m EXCEPT !.tasks = [i \in DOMAIN m.tasks \cup {id} |->
                               IF i = id THEN row ELSE m.tasks[i]],
                 !.currentId.tasks = id + 1]

\* MemStorage.deleteTask: this.tasks.delete(id)
MemDeleteTask(m, id) ==
    [m EXCEPT !.tasks = [i \in DOMAIN m.tasks \ {id} |-> m.tasks[i]]]

Called(m, op, uid) == [m EXCEPT !.op = op, !.uid = uid]

\* passport.deserializeUser of a request that carries a session: storage.getUser(id)
MemRequest(caller) ==
    /\ caller \in sessions
    /\ mem' = Called(MemGetUser(mem, caller), "request", NULL)
    /\ UNCHANGED <<lastGet, vslots, qslots, fedVars, pslots, envVars, taskVars, users, providers,
                   sessions, established, outbox, adminVars, reviewVars>>

\* POST /api/register with a password, on MemStorage
MemRegister(email) ==
    LET m1 == MemGetUserByEmail(mem, email)
        id == mem.currentId.users
        row == NewUser(email, "hash", NULL, FALSE, FALSE, id)
    IN /\ id <= MaxUsers
       /\ mem' = Called(IF MemFindByEmail(mem, email) # 0
                           \/ MemFindByUsername(mem, UsernameOf(email)) # 0
                        THEN m1
                        ELSE MemCreateUser(m1, row),
                        "register", NULL)
       /\ UNCHANGED <<lastGet, vslots, qslots, fedVars, pslots, envVars, taskVars, users, providers,
                      sessions, established, outbox, adminVars, reviewVars>>

\* GET /api/verify-email and POST /api/login of the account with that email, on
\* MemStorage: getUserByVerificationToken and updateUser, then the LocalStrategy's
\* getUserByEmail and req.login.
MemVerifyAndLogin(email) ==
    LET u == MemFindByEmail(mem, email)
        m1 == MemUpdateUser(mem, u, [isEmailVerified |-> TRUE,
                                     emailVerificationToken |-> 0])
    IN /\ u # 0
       /\ mem.users[u].password = "hash"
       /\ mem' = Called(MemGetUserByEmail(m1, email), "login", NULL)
       /\ sessions' = sessions \cup {u}
       /\ UNCHANGED <<lastGet, vslots, qslots, fedVars, pslots, envVars, taskVars, users, providers,
                      established, outbox, adminVars, reviewVars>>

\* POST /api/auth/firebase with a verified token, on MemStorage
MemAuthFirebase(uid) ==
    LET m1 == MemGetUserByFirebaseUid(mem, uid)
        found == MemFindByFirebaseUid(mem, uid)
        mail == FirebaseEmail(uid)
        id == IF found = 0 THEN mem.currentId.users ELSE found
        row == NewUser(mail, "firebase_user", uid, IsAdminEmail(mail), TRUE, 0)
    IN /\ found = 0 => mem.currentId.users <= MaxUsers
       /\ mem' = Called(IF found = 0 THEN MemCreateUser(m1, row)
                        ELSE IF IsAdminEmail(mail) /\ ~m1.users[found].isAdmin
                        THEN MemUpdateUser(m1, found, [isAdmin |-> TRUE])
                        ELSE m1,
                        "auth/firebase", uid)
       /\ sessions' = sessions \cup {id}
       /\ UNCHANGED <<lastGet, vslots, qslots, fedVars, pslots, envVars, taskVars, users, providers,
                      established, outbox, adminVars, reviewVars>>

\* updateSchema.parse of PUT /api/user: the keys the model varies are email and an
\* isAdmin a caller may try to smuggle in.
updateSchemaParse(body) == [f \in DOMAIN body \cap {"email"} |-> body[f]]

UserBodies == {[email |-> e, isAdmin |-> TRUE] : e \in Emails}

\* PUT /api/user, on MemStorage
MemPutUser(caller, body) ==
    LET m0 == MemGetUser(mem, caller)
        validatedData == updateSchemaParse(body)
        changed == validatedData.email # m0.users[caller].email
        existing == MemFindByEmail(m0, validatedData.email)
        m1 == IF changed THEN MemGetUserByEmail(m0, validatedData.email) ELSE m0
    IN /\ caller \in sessions
       /\ caller \in DOMAIN mem.users
       /\ mem' = Called(IF changed /\ existing # 0 /\ existing # caller
                        THEN m1
                        ELSE MemUpdateUser(m1, caller, validatedData),
                        "put/user", NULL)
       /\ UNCHANGED <<lastGet, vslots, qslots, fedVars, pslots, envVars, taskVars, users, providers,
                      sessions, established, outbox, adminVars, reviewVars>>

\* POST /api/tasks, on MemStorage
MemPostTask(caller) ==
    /\ caller \in sessions
    /\ mem.currentId.tasks <= MaxTasks
    /\ mem' = Called(MemCreateTask(MemGetUser(mem, caller),
                                   [clientId |-> caller, title |-> "a"]),
                     "post/tasks", NULL)
    /\ UNCHANGED <<lastGet, vslots, qslots, fedVars, pslots, envVars, taskVars, users, providers,
                   sessions, established, outbox, adminVars, reviewVars>>

\* storage.deleteTask(id)
MemDropTask(id) ==
    /\ id \in DOMAIN mem.tasks
    /\ mem' = Called(MemDeleteTask(mem, id), "deleteTask", NULL)
    /\ UNCHANGED <<lastGet, vslots, qslots, fedVars, pslots, envVars, taskVars, users, providers,
                   sessions, established, outbox, adminVars, reviewVars>>

\* ------------------------------ GET /api/verify-email, one await after the other
\* Tokens a request may carry: those POST /register can have issued (the model's
\* token of a user is the user's id).
TokenValues == 1..MaxUsers

IdleVerify == [pc |-> "idle", token |-> 0, found |-> 0, status |-> 0]

LatestVerify ==
    [q \in Slots |-> IF vslots[q].pc = "done" THEN IdleVerify ELSE vslots[q]]

\* Variant: a verification that leaves the token in place.
verifyEmailUpdateKeepToken(id) == [users EXCEPT ![id].isEmailVerified = TRUE]

\* storage.updateUser(user.id, { isEmailVerified: true, emailVerificationToken: null })
verifyEmailUpdate(id) ==
    [users EXCEPT ![id].isEmailVerified = TRUE, ![id].emailVerificationToken = 0]

\* `await storage.getUserByVerificationToken(token)` and the 400 when none is found
VerifyLookup(r, token) ==
    LET found == getUserByVerificationToken(token)
        req == [IdleVerify EXCEPT !.token = token, !.found = found]
    IN /\ vslots[r].pc \in {"idle", "done"}
       /\ \A q \in Slots : q < r => vslots[q].pc \notin {"idle", "done"}
       /\ vslots' = IF found # 0
                    THEN [vslots EXCEPT ![r] = [req EXCEPT !.pc = "update"]]
                    ELSE [LatestVerify EXCEPT ![r] =
                            [req EXCEPT !.pc = "done", !.status = 400]]
       /\ UNCHANGED <<lastGet, mem, qslots, fedVars, pslots, envVars, taskVars, users, providers,
                      sessions, established, outbox, adminVars, reviewVars>>

\* `await storage.updateUser(...)` and the 200
VerifyUpdate(r) ==
    /\ vslots[r].pc = "update"
    /\ users' = verifyEmailUpdate(vslots[r].found)
    /\ vslots' = [LatestVerify EXCEPT ![r] =
                    [vslots[r] EXCEPT !.pc = "done", !.status = 200]]
    /\ UNCHANGED <<lastGet, mem, qslots, fedVars, pslots, envVars, taskVars, providers, sessions,
                   established, outbox, adminVars, reviewVars>>

\* ------------------------------------------- public reads: GET /api/providers...
\* Category ids a request may name: the one the model's providers are filed under
\* and another.
CategoryInputs == {1, 2}

\* ids: the providers in the response; hidden: those read and left out of it.
NoGet == [route |-> "none", arg |-> 0, status |-> 0, ids |-> {}, hidden |-> {}]

\* Variant: no filter on the approval status.
VisibleAlways(row) == TRUE

\* provider.approvalStatus === "approved"
Visible(row) == row.approvalStatus = "approved"

\* storage.getServiceProviders() / getServiceProvidersByCategory(categoryId)
getServiceProviders == {p \in 1..Len(providers) : TRUE}

getServiceProvidersByCategory(categoryId) ==
    {p \in 1..Len(providers) : providers[p].categoryId = categoryId}

\* The rows a list route returns: the approved ones whose user row exists.
Listed(rows) ==
    {p \in rows : Visible(providers[p]) /\ providers[p].userId \in 1..Len(users)}

\* GET /api/providers
GetProviders ==
    /\ lastGet' = [route |-> "list", arg |-> 0, status |-> 200,
                   ids |-> Listed(getServiceProviders),
                   hidden |-> getServiceProviders \ Listed(getServiceProviders)]
    /\ UNCHANGED <<vslots, mem, qslots, fedVars, pslots, envVars, taskVars, users,
                   providers, sessions, established, outbox, adminVars, reviewVars>>

\* GET /api/providers/category/:categoryId
GetProvidersByCategory(categoryId) ==
    /\ lastGet' = [route |-> "category", arg |-> categoryId, status |-> 200,
                   ids |-> Listed(getServiceProvidersByCategory(categoryId)),
                   hidden |-> getServiceProvidersByCategory(categoryId)
                                 \ Listed(getServiceProvidersByCategory(categoryId))]
    /\ UNCHANGED <<vslots, mem, qslots, fedVars, pslots, envVars, taskVars, users,
                   providers, sessions, established, outbox, adminVars, reviewVars>>

\* GET /api/providers/:id
GetProvider(id) ==
    /\ lastGet' = IF id \in 1..Len(providers)
                     /\ providers[id].userId \in 1..Len(users)
                     /\ Visible(providers[id])
                  THEN [route |-> "one", arg |-> id, status |-> 200, ids |-> {id},
                        hidden |-> {}]
                  ELSE [route |-> "one", arg |-> id, status |-> 404, ids |-> {},
                        hidden |-> {id} \cap (1..Len(providers))]
    /\ UNCHANGED <<vslots, mem, qslots, fedVars, pslots, envVars, taskVars, users,
                   providers, sessions, established, outbox, adminVars, reviewVars>>

\* ------------------------------------------------------------ specification

Init ==
    /\ users = <<>>
    /\ providers = <<>>
    /\ sessions = {}
    /\ established = {}
    /\ slots = [r \in Slots |-> IdleSlot]
    /\ outbox = EmptyBag
    /\ transitions = [p \in PidInputs |-> 0]
    /\ serviceRequests = <<>>
    /\ reviews = <<>>
    /\ rslots = [r \in Slots |-> IdleReview]
    /\ overlapped = FALSE
    /\ tasks = <<>>
    /\ tslots = [r \in Slots |-> IdleTask]
    /\ transportUp = TRUE
    /\ lastCreate = NoCreate
    /\ pslots = [r \in Slots |-> IdleCreate]
    /\ firebaseEnv = Configured
    /\ fslots = [r \in Slots |-> IdleAuth]
    /\ lastGet = NoGet
    /\ vslots = [r \in Slots |-> IdleVerify]
    /\ mem = MemStorageNew(FALSE)
    /\ qslots = [r \in Slots |-> IdleRequest]
    /\ boot = Booted

Callers == {0} \cup sessions

\* The approval workflow: federated logins, provider profiles, the owner's routes
\* and the two admin routes.
Next ==
    \/ \E u \in Uids : AuthFirebase(u)
    \/ /\ Len(providers) < MaxProviders
       /\ \E c \in Callers, img \in BOOLEAN : PostProviders(c, img)
    \/ \E c \in Callers, pid \in PidInputs, b \in PutBodies : PutProvider(c, pid, b)
    \/ \E c \in Callers : UploadIdVerification(c)
    \/ \E r \in Slots, c \in Callers, pid \in PidInputs, n \in NotesInputs :
          ApproveBegin(r, c, pid, n)
    \/ \E r \in Slots : ApproveUpdate(r)
    \/ \E r \in Slots : ApproveNotify(r)
    \/ \E r \in Slots, c \in Callers, pid \in PidInputs, n \in NotesInputs :
          RejectBegin(r, c, pid, n)
    \/ \E r \in Slots : RejectUpdate(r)
    \/ \E r \in Slots : RejectNotify(r)

\* Account and provider-profile creation through every route that creates one.
NextRegister ==
    \/ \E e \in Emails, u \in Uids \cup {NULL}, sp \in BOOLEAN : Register(e, u, sp)
    \/ \E t \in 1..MaxUsers : VerifyEmail(t)
    \/ \E e \in Emails, ok \in BOOLEAN : Login(e, ok)
    \/ \E e \in Emails, u \in Uids \cup {NULL}, sp \in BOOLEAN, img \in BOOLEAN :
          RegisterGoogle(e, u, sp, img)
    \/ \E u \in Uids : AuthFirebase(u)
    \/ \E c \in Callers, img \in BOOLEAN : PostProviders(c, img)

\* The review routes start from a store that the other routes have filled: Pat's
\* provider profile as createServiceProvider stored it, Cam as a client with one
\* completed and one pending service request to Pat, both with a session.
CamEmail == "cam@example.com"

InitReview ==
    /\ users = << NewUser(PatEmail, "firebase_user", "uidPat", FALSE, TRUE, 0),
                  NewUser(CamEmail, "hash", NULL, FALSE, TRUE, 0) >>
    /\ providers = << ProviderRow(ProviderData(1, TRUE)) >>
    /\ sessions = {1, 2}
    /\ established = {<<1, "token">>, <<2, "password">>}
    /\ slots = [r \in Slots |-> IdleSlot]
    /\ outbox = EmptyBag
    /\ transitions = [p \in PidInputs |-> 0]
    /\ serviceRequests = << [clientId |-> 2, providerId |-> 1, status |-> "completed"],
                            [clientId |-> 2, providerId |-> 1, status |-> "pending"] >>
    /\ reviews = <<>>
    /\ rslots = [r \in Slots |-> IdleReview]
    /\ overlapped = FALSE
    /\ tasks = <<>>
    /\ tslots = [r \in Slots |-> IdleTask]
    /\ transportUp = TRUE
    /\ lastCreate = NoCreate
    /\ pslots = [r \in Slots |-> IdleCreate]
    /\ firebaseEnv = Configured
    /\ fslots = [r \in Slots |-> IdleAuth]
    /\ lastGet = NoGet
    /\ vslots = [r \in Slots |-> IdleVerify]
    /\ mem = MemStorageNew(FALSE)
    /\ qslots = [r \in Slots |-> IdleRequest]
    /\ boot = Booted

\* The task routes, called by the users of that store.
NextTasks ==
    \/ \E c \in Callers : PostTask(c)
    \/ \E r \in Slots, c \in Callers, t \in TaskInputs, b \in TaskBodies :
          PutTaskBegin(r, c, t, b)
    \/ \E r \in Slots : PutTaskUpdate(r)

NextReview ==
    \/ \E r \in Slots, c \in Callers, sr \in SrInputs, x \in Ratings :
          ReviewBegin(r, c, sr, x)
    \/ \E r \in Slots : ReviewInsert(r)
    \/ \E r \in Slots : ReviewRead(r)
    \/ \E r \in Slots : ReviewUpdate(r)

\* The routes that send mail, one admin request at a time, with a mail relay that
\* fails at any moment.
NextMail ==
    \/ TransportFlip
    \/ \E u \in Uids : AuthFirebase(u)
    \/ \E e \in Emails, sp \in BOOLEAN : Register(e, NULL, sp)
    \/ /\ Len(providers) < MaxProviders
       /\ \E c \in Callers, img \in BOOLEAN : PostProviders(c, img)
    \/ \E c \in Callers, pid \in PidInputs : ApproveBegin(1, c, pid, NULL)
    \/ ApproveUpdate(1)
    \/ ApproveNotify(1)
    \/ \E c \in Callers, pid \in PidInputs : RejectBegin(1, c, pid, "looks good")
    \/ RejectUpdate(1)
    \/ RejectNotify(1)

\* A start of the server in any environment, then federated logins and the task
\* routes on the storage it selected.
InitBoot ==
    /\ users = <<>>
    /\ providers = <<>>
    /\ sessions = {}
    /\ established = {}
    /\ slots = [r \in Slots |-> IdleSlot]
    /\ outbox = EmptyBag
    /\ transitions = [p \in PidInputs |-> 0]
    /\ serviceRequests = <<>>
    /\ reviews = <<>>
    /\ rslots = [r \in Slots |-> IdleReview]
    /\ overlapped = FALSE
    /\ tasks = <<>>
    /\ tslots = [r \in Slots |-> IdleTask]
    /\ transportUp = TRUE
    /\ lastCreate = NoCreate
    /\ pslots = [r \in Slots |-> IdleCreate]
    /\ firebaseEnv = Configured
    /\ fslots = [r \in Slots |-> IdleAuth]
    /\ lastGet = NoGet
    /\ vslots = [r \in Slots |-> IdleVerify]
    /\ mem = MemStorageNew(FALSE)
    /\ qslots = [r \in Slots |-> IdleRequest]
    /\ boot \in {BootStart(url, prod, reach) :
                    url \in BOOLEAN, prod \in BOOLEAN, reach \in BOOLEAN}

NextBoot ==
    \/ ImportDb
    \/ SelectStorage
    \/ ConnectCallback
    \/ StorageAnswers /\ \E u \in Uids : AuthFirebase(u)
    \/ StorageAnswers /\ \E c \in Callers : PostTask(c)
    \/ StorageAnswers /\ \E c \in Callers, t \in TaskInputs, b \in TaskBodies :
                             PutTaskBegin(1, c, t, b)
    \/ StorageAnswers /\ PutTaskUpdate(1)

\* Every route that creates a provider profile, POST /providers with its awaits
\* apart.
NextProviders ==
    \/ \E u \in Uids : AuthFirebase(u)
    \/ \E e \in Emails, u \in Uids \cup {NULL}, sp \in BOOLEAN : Register(e, u, sp)
    \/ \E e \in Emails, u \in Uids \cup {NULL}, sp \in BOOLEAN, img \in BOOLEAN :
          RegisterGoogle(e, u, sp, img)
    \/ \E r \in Slots, c \in Callers, img \in BOOLEAN : PostProvidersCheck(r, c, img)
    \/ \E r \in Slots : PostProvidersCreate(r)

\* A start in any Firebase Admin / NODE_ENV environment.
InitFederated ==
    /\ users = <<>>
    /\ providers = <<>>
    /\ sessions = {}
    /\ established = {}
    /\ slots = [r \in Slots |-> IdleSlot]
    /\ outbox = EmptyBag
    /\ transitions = [p \in PidInputs |-> 0]
    /\ serviceRequests = <<>>
    /\ reviews = <<>>
    /\ rslots = [r \in Slots |-> IdleReview]
    /\ overlapped = FALSE
    /\ tasks = <<>>
    /\ tslots = [r \in Slots |-> IdleTask]
    /\ transportUp = TRUE
    /\ lastCreate = NoCreate
    /\ pslots = [r \in Slots |-> IdleCreate]
    /\ boot = Booted
    /\ firebaseEnv \in [initialised : BOOLEAN, development : BOOLEAN]
    /\ fslots = [r \in Slots |-> IdleAuth]
    /\ lastGet = NoGet
    /\ vslots = [r \in Slots |-> IdleVerify]
    /\ mem = MemStorageNew(FALSE)
    /\ qslots = [r \in Slots |-> IdleRequest]

\* Federated logins, with their awaits apart.
NextFederated ==
    \/ \E r \in Slots, t \in TokenInputs : FirebaseLookup(r, t)
    \/ \E r \in Slots : FirebaseLogin(r)

\* The service-request update route, called by the users of the review store.
NextRequests ==
    \/ \E r \in Slots, c \in Callers, sid \in SrInputs, b \in RequestBodies :
          PutRequestBegin(r, c, sid, b)
    \/ \E r \in Slots : PutRequestUpdate(r)

\* A server that selected MemStorage, in development or not.
InitMemory ==
    /\ users = <<>>
    /\ providers = <<>>
    /\ sessions = {}
    /\ established = {}
    /\ slots = [r \in Slots |-> IdleSlot]
    /\ outbox = EmptyBag
    /\ transitions = [p \in PidInputs |-> 0]
    /\ serviceRequests = <<>>
    /\ reviews = <<>>
    /\ rslots = [r \in Slots |-> IdleReview]
    /\ overlapped = FALSE
    /\ tasks = <<>>
    /\ tslots = [r \in Slots |-> IdleTask]
    /\ transportUp = TRUE
    /\ lastCreate = NoCreate
    /\ pslots = [r \in Slots |-> IdleCreate]
    /\ boot = [Booted EXCEPT !.databaseUrl = FALSE, !.production = FALSE,
                             !.pool = FALSE, !.storage = "memory"]
    /\ firebaseEnv \in [initialised : {TRUE}, development : BOOLEAN]
    /\ fslots = [r \in Slots |-> IdleAuth]
    /\ lastGet = NoGet
    /\ vslots = [r \in Slots |-> IdleVerify]
    /\ qslots = [r \in Slots |-> IdleRequest]
    /\ mem = MemStorageNew(firebaseEnv.development)

\* The account routes and the task calls, on MemStorage.
NextMemory ==
    \/ \E c \in sessions : MemRequest(c)
    \/ \E e \in Emails : MemRegister(e)
    \/ \E e \in Emails : MemVerifyAndLogin(e)
    \/ \E u \in Uids : MemAuthFirebase(u)
    \/ \E c \in sessions, b \in UserBodies : MemPutUser(c, b)
    \/ \E c \in sessions : MemPostTask(c)
    \/ \E t \in 1..MaxTasks : MemDropTask(t)

\* Password registration, verification with its awaits apart, and login.
NextVerify ==
    \/ \E e \in Emails, u \in Uids \cup {NULL}, sp \in BOOLEAN : Register(e, u, sp)
    \/ \E r \in Slots, t \in TokenValues : VerifyLookup(r, t)
    \/ \E r \in Slots : VerifyUpdate(r)
    \/ \E e \in Emails, ok \in BOOLEAN : Login(e, ok)

\* The public reads, next to the routes that create and decide applications (one
\* admin request at a time).
NextPublic ==
    \/ \E u \in Uids : AuthFirebase(u)
    \/ /\ Len(providers) < MaxProviders
       /\ \E c \in Callers, img \in BOOLEAN : PostProviders(c, img)
    \/ \E c \in Callers, pid \in PidInputs :
          ApproveBegin(1, c, pid, NULL)
    \/ ApproveUpdate(1)
    \/ ApproveNotify(1)
    \/ \E c \in Callers, pid \in PidInputs :
          RejectBegin(1, c, pid, "looks good")
    \/ RejectUpdate(1)
    \/ RejectNotify(1)
    \/ GetProviders
    \/ \E c \in CategoryInputs : GetProvidersByCategory(c)
    \/ \E pid \in PidInputs : GetProvider(pid)

Spec == Init /\ [][Next]_vars

SpecPublic == Init /\ [][NextPublic]_vars

SpecVerify == Init /\ [][NextVerify]_vars

SpecMemory == InitMemory /\ [][NextMemory]_vars

SpecRequests == InitReview /\ [][NextRequests]_vars

SpecFederated == InitFederated /\ [][NextFederated]_vars

SpecProviders == Init /\ [][NextProviders]_vars

SpecBoot == InitBoot /\ [][NextBoot]_vars

SpecMail == Init /\ [][NextMail]_vars

SpecReview == InitReview /\ [][NextReview]_vars

SpecTasks == InitReview /\ [][NextTasks]_vars

SpecRegister == Init /\ [][NextRegister]_vars

\* ================================================================ properties
\* A provider id that names a stored row whose approvalStatus is terminal.
Terminal(p) ==
    p \in 1..Len(providers) /\ providers[p].approvalStatus \in {"approved", "rejected"}

Pending(p) ==
    p \in 1..Len(providers) /\ providers[p].approvalStatus = "pending"

IsAdmin(c) == c # 0 /\ users[c].isAdmin

\* This step is the arrival of an approve/reject request in slot r: the slot was
\* free and now holds the request, either past its checks or answered.
Arrived(r) ==
    /\ slots[r].pc \in {"idle", "done"}
    /\ slots'[r].pc \in {"update", "done"}
    /\ slots'[r] # slots[r]

\* This step is the write / the notification of the request in slot r.
Wrote(r) == slots[r].pc = "update" /\ slots'[r].pc = "notify"
Notified(r) == slots[r].pc = "notify" /\ slots'[r].pc = "done"

ReviewFields(row) ==
    <<row.approvalStatus, row.isVerified, row.adminNotes, row.reviewedBy,
      row.reviewedAt>>

\* ---- C1
C1_Step ==
    \A r \in Slots :
        (Arrived(r) /\ Terminal(slots'[r].pid)) =>
            /\ slots'[r].pc = "done"
            /\ slots'[r].status \in {400, 401, 403}
            /\ (IsAdmin(slots'[r].caller)
                  /\ (slots'[r].kind = "approve" \/ Truthy(slots'[r].notes)))
               => /\ slots'[r].status = 400
                  /\ slots'[r].message = "Provider is not pending approval"
            /\ providers' = providers
            /\ outbox' = outbox
            /\ transitions' = transitions

\* C1: an approve or reject request that arrives when the provider it names is
\* already approved or rejected is answered with an error and changes neither the
\* provider row (approvalStatus, isVerified, adminNotes, reviewedBy, reviewedAt) nor
\* anything else; for an admin whose request is otherwise well formed the error is
\* the state conflict "Provider is not pending approval" (status 400).
C1_TerminalCallsFail == [][C1_Step]_vars

\* C1, the case: an answered request carrying that error, on a terminal provider.
C1_Witness ==
    \E r \in Slots :
        /\ slots[r].pc = "done"
        /\ slots[r].status = 400
        /\ slots[r].message = "Provider is not pending approval"
        /\ Terminal(slots[r].pid)

\* ---- C2
\* C2: a provider's approvalStatus leaves pending at most once: over every
\* interleaving of approve and reject requests, at most one of them writes a
\* transition to a given provider row.
C2_LeavesPendingOnce == \A p \in PidInputs : transitions[p] <= 1

\* ---- C3
\* C3: a provider created by POST /providers or POST /register/google without a
\* verification image is stored approved and verified.
C3_NoImageStoredApproved ==
    \A p \in 1..Len(providers) :
        (providers[p].submittedAt /\ providers[p].idVerificationImage = NULL) =>
            (providers[p].approvalStatus = "approved" /\ providers[p].isVerified)

\* ---- C4
C4_Step ==
    \A p \in (Len(providers) + 1)..Len(providers') :
        providers'[p].approvalStatus = "pending"

C5_Step ==
    /\ \A p \in 1..Len(providers) :
          ReviewFields(providers'[p]) # ReviewFields(providers[p]) =>
              \E r \in Slots :
                  Wrote(r) /\ slots[r].pid = p /\ IsAdmin(slots[r].caller)
    /\ \A r \in Slots :
          Arrived(r) =>
              /\ (slots'[r].caller = 0)
                     <=> (slots'[r].pc = "done" /\ slots'[r].status = 401)
              /\ (slots'[r].caller # 0 /\ ~users[slots'[r].caller].isAdmin)
                     <=> (slots'[r].pc = "done" /\ slots'[r].status = 403)
              /\ slots'[r].status \in {401, 403} => providers' = providers

\* C5: the review fields of a provider row (approvalStatus, isVerified, adminNotes,
\* reviewedBy, reviewedAt) change only in the write of an approve/reject request
\* whose caller's user row has isAdmin true; approve and reject answer 401 exactly
\* to callers without a session and 403 exactly to sessions of non-admins, and then
\* change nothing; PUT /providers/:id and POST /upload/id-verification never change
\* those fields.
C5_OnlyAdminTransitions == [][C5_Step]_vars

\* C5, the case: a non-admin session was refused with 403 on a provider that is
\* pending, and the owner's routes have written the row's image.
C5_Witness ==
    \E r \in Slots :
        /\ slots[r].pc = "done"
        /\ slots[r].status = 403
        /\ slots[r].caller # 0
        /\ ~users[slots[r].caller].isAdmin
        /\ Pending(slots[r].pid)
        /\ providers[slots[r].pid].idVerificationImage = "img"

\* ---- C6
C6_Step ==
    \A r \in Slots :
        (Arrived(r) /\ slots'[r].kind = "reject" /\ ~Truthy(slots'[r].notes)) =>
            /\ slots'[r].pc = "done"
            /\ slots'[r].status \in {400, 401, 403}
            /\ IsAdmin(slots'[r].caller)
               => /\ slots'[r].status = 400
                  /\ slots'[r].message = "Admin notes are required for rejection"
            /\ providers' = providers
            /\ outbox' = outbox
            /\ transitions' = transitions

\* C6: a reject request whose adminNotes is missing or empty is answered with a
\* client error (400 "Admin notes are required for rejection" for an admin) and
\* writes nothing: the provider keeps its status, no reviewer id or timestamp is
\* stamped and no notification is sent.
C6_RejectNeedsNotes == [][C6_Step]_vars

\* C6, the case: an admin's reject without notes was refused and the provider it
\* names is still pending and unstamped.
C6_Witness ==
    \E r \in Slots :
        /\ slots[r].pc = "done"
        /\ slots[r].kind = "reject"
        /\ ~Truthy(slots[r].notes)
        /\ slots[r].status = 400
        /\ slots[r].message = "Admin notes are required for rejection"
        /\ Pending(slots[r].pid)
        /\ providers[slots[r].pid].reviewedBy = 0
        /\ providers[slots[r].pid].reviewedAt = 0

\* ---- C7
C7_Step ==
    \A r \in Slots :
        /\ (Arrived(r) /\ slots'[r].kind = "approve" /\ IsAdmin(slots'[r].caller)
              /\ Pending(slots'[r].pid))
           => slots'[r].pc = "update"
        /\ (Wrote(r) /\ slots[r].kind = "approve" /\ ~Truthy(slots[r].notes))
           => /\ providers'[slots[r].pid].approvalStatus = "approved"
              /\ providers'[slots[r].pid].isVerified
              /\ providers'[slots[r].pid].adminNotes = NULL
        /\ Notified(r) => slots'[r].status = 200

\* C7: an admin's approve request on a pending provider passes the checks whether or
\* not it carries adminNotes; without notes (missing or empty) its write stores
\* approvalStatus approved, isVerified true and adminNotes null, and the request is
\* answered 200.
C7_ApproveWithoutNotes == [][C7_Step]_vars

\* C7, the case: an approve answered 200 on a row that is approved, verified and has
\* null adminNotes.
C7_Witness ==
    \E r \in Slots :
        /\ slots[r].pc = "done"
        /\ slots[r].kind = "approve"
        /\ slots[r].status = 200
        /\ providers[slots[r].pid].approvalStatus = "approved"
        /\ providers[slots[r].pid].isVerified
        /\ providers[slots[r].pid].adminNotes = NULL

\* ---- C8
OutcomeKind(kind) == IF kind = "approve" THEN "approved" ELSE "rejected"

OwnerMail(r) ==
    Mail(users[providers[slots[r].pid].userId].email, OutcomeKind(slots[r].kind))

C8_Step ==
    /\ \A r \in Slots :
          /\ Wrote(r) =>
                /\ providers'[slots[r].pid].approvalStatus = OutcomeKind(slots[r].kind)
                /\ providers'[slots[r].pid].reviewedBy = slots[r].caller
                /\ providers'[slots[r].pid].reviewedAt > providers[slots[r].pid].reviewedAt
                /\ outbox' = outbox
          /\ Notified(r) =>
                /\ providers[slots[r].pid].approvalStatus # "pending"
                /\ providers' = providers
                /\ outbox' = outbox (+) SetToBag({OwnerMail(r)})
    /\ \A m \in BagToSet(outbox') :
          (m.kind \in {"approved", "rejected"}
             /\ CopiesIn(m, outbox') # CopiesIn(m, outbox))
          => \E r \in Slots : Notified(r)

\* C8: the write of an approve/reject request stores the new approvalStatus together
\* with reviewedBy = the calling admin's id and a fresh reviewedAt, and sends nothing;
\* the request's next step attempts one outcome mail, to the email of the provider's
\* user, with the state change already stored; outcome mails are attempted by no
\* other step, so each transition is followed by exactly one.
C8_StampThenNotifyOnce == [][C8_Step]_vars

\* C8, the case: a reject answered 200, the row rejected and stamped with the caller,
\* and one rejection mail to the owner in the outbox.
C8_Witness ==
    \E r \in Slots :
        /\ slots[r].pc = "done"
        /\ slots[r].kind = "reject"
        /\ slots[r].status = 200
        /\ providers[slots[r].pid].approvalStatus = "rejected"
        /\ providers[slots[r].pid].reviewedBy = slots[r].caller
        /\ providers[slots[r].pid].reviewedAt = 1
        /\ CopiesIn(OwnerMail(r), outbox) = 1

\* ---- C9
NoneInFlight == \A q \in Slots : ~InFlight(q)

\* The arithmetic mean of the ratings of s, rounded to one decimal, in tenths.
MeanRounded(s) == (20 * SumRatings(s) + Len(s)) \div (2 * Len(s))

\* C9: after reviews have been created one after another (no two requests ever in
\* flight together), the provider's stored rating is the arithmetic mean of all its
\* reviews' ratings rounded to one decimal.
C9_SequentialMean ==
    \A p \in 1..Len(providers) :
        (~overlapped /\ NoneInFlight /\ getReviewsByProvider(p) # <<>>) =>
            providers[p].rating = MeanRounded(getReviewsByProvider(p))

\* ---- C10
C10_Step ==
    \A r \in Slots :
        /\ (rslots[r].pc = "insert" /\ rslots'[r].pc = "read") =>
              /\ Len(reviews') = Len(reviews) + 1
              /\ providers' = providers
        /\ (rslots[r].pc = "update" /\ rslots'[r].pc = "done") =>
              /\ reviews' = reviews
              /\ providers'[rslots[r].providerId].rating =
                     (20 * (SumRatings(rslots[r].snapshot) + rslots[r].rating)
                         + (Len(rslots[r].snapshot) + 1))
                     \div (2 * (Len(rslots[r].snapshot) + 1))

\* C10: inserting a review and recomputing the rating are separate steps: the insert
\* leaves the provider row alone, and the later write stores the value computed from
\* the list of reviews the request read earlier, whatever has been inserted since.
C10_WriteFromEarlierRead == [][C10_Step]_vars

\* C10, the case (a lost update): two requests overlapped, all requests have
\* finished, and the stored rating is neither what the recomputation gives over all
\* stored reviews for any of them as the new review, nor their rounded mean.
C10_Witness ==
    \E p \in 1..Len(providers) :
        LET all == getReviewsByProvider(p)
        IN /\ overlapped
           /\ NoneInFlight
           /\ Len(all) >= 2
           /\ \A i \in 1..Len(all) : providers[p].rating # newRating(all, all[i].rating)
           /\ providers[p].rating # MeanRounded(all)

\* ---- C11
\* This step is the arrival of a POST /reviews request in slot r.
ReviewArrived(r) ==
    /\ rslots[r].pc \in {"idle", "done"}
    /\ rslots'[r].pc \in {"insert", "done"}
    /\ rslots'[r] # rslots[r]

NotCompleted(sr) ==
    sr \in 1..Len(serviceRequests) /\ serviceRequests[sr].status # "completed"

C11_Step ==
    /\ \A r \in Slots :
          (ReviewArrived(r) /\ NotCompleted(rslots'[r].sr)) =>
              /\ rslots'[r].pc = "done"
              /\ rslots'[r].status \in {400, 401, 403}
              /\ (rslots'[r].caller # 0
                    /\ serviceRequests[rslots'[r].sr].clientId = rslots'[r].caller)
                 => rslots'[r].status = 400
              /\ reviews' = reviews
              /\ providers' = providers
    /\ \A i \in (Len(reviews) + 1)..Len(reviews') :
          ~NotCompleted(reviews'[i].serviceRequestId)

\* C11: a POST /reviews request naming a service request whose status is not
\* completed is answered with an error (400 for the request's own client), stores no
\* review and leaves the provider's rating alone; no stored review names such a
\* service request.
C11_OnlyCompletedReviewed == [][C11_Step]_vars

\* C11, the case: the client's review of their pending service request was refused
\* with 400 while reviews of the completed one are stored.
C11_Witness ==
    \E r \in Slots :
        /\ rslots[r].pc = "done"
        /\ rslots[r].status = 400
        /\ NotCompleted(rslots[r].sr)
        /\ serviceRequests[rslots[r].sr].clientId = rslots[r].caller
        /\ reviews # <<>>

\* ---- C12
LocalAccount(row) == row.firebaseUid = NULL /\ row.password = "hash"

C12_Step ==
    /\ \A u \in sessions' \ sessions :
          LocalAccount(users'[u]) =>
              /\ u \in 1..Len(users)
              /\ users[u].isEmailVerified
              /\ users' = users
    /\ \A u \in (Len(users) + 1)..Len(users') :
          LocalAccount(users'[u]) =>
              /\ u \notin sessions'
              /\ ~users'[u].isEmailVerified
              /\ users'[u].emailVerificationToken # 0
    /\ \A u \in 1..Len(users) :
          (LocalAccount(users[u]) /\ ~users[u].isEmailVerified
             /\ users'[u].isEmailVerified)
          => getUserByVerificationToken(users[u].emailVerificationToken) = u

\* C12: a locally registered account is created unverified, with a token and without
\* a session; it becomes verified only by GET /verify-email with its own token; and a
\* session for it is established only by a step that finds it already verified (the
\* login), never by the registration and never while it is unverified.
C12_NoLocalLoginBeforeVerification == [][C12_Step]_vars

\* C12, the case: one local account verified and logged in, another still unverified
\* and without a session.
C12_Witness ==
    /\ \E u \in sessions :
          LocalAccount(users[u]) /\ users[u].isEmailVerified
    /\ \E u \in 1..Len(users) :
          LocalAccount(users[u]) /\ ~users[u].isEmailVerified /\ u \notin sessions

\* ---- C13
\* C13: every session was established by a local login (matching password, verified
\* email) or by a federated login whose token was verified; no other request logs a
\* caller in.
C13_SessionsByPasswordOrToken ==
    \A e \in established : e[2] \in {"password", "token"}

\* ---- C14
TaskArrived(r) ==
    /\ tslots[r].pc \in {"idle", "done"}
    /\ tslots'[r].pc \in {"update", "done"}
    /\ tslots'[r] # tslots[r]

C14_Step ==
    /\ \A r \in Slots :
          (TaskArrived(r) /\ tslots'[r].caller # 0
             /\ tslots'[r].tid \in 1..Len(tasks)
             /\ tasks[tslots'[r].tid].clientId # tslots'[r].caller)
          => /\ tslots'[r].pc = "done"
             /\ tslots'[r].status = 403
             /\ tasks' = tasks
    /\ \A t \in 1..Len(tasks) :
          tasks'[t] # tasks[t] =>
              \E r \in Slots :
                  /\ tslots[r].pc = "update"
                  /\ tslots'[r].pc = "done"
                  /\ tslots'[r].status = 200
                  /\ tslots[r].tid = t

\* C14: a PUT /tasks/:id request of a session whose user is not the task's clientId
\* is answered 403 and changes no task; a task row changes only in the write of a
\* request that passed that check.
C14_OnlyOwnerMutatesTask == [][C14_Step]_vars

\* C14, the case: user B's PUT on A's task was refused with 403 and the task is as A
\* created it.
C14_Witness ==
    \E r \in Slots :
        /\ tslots[r].pc = "done"
        /\ tslots[r].status = 403
        /\ tslots[r].tid \in 1..Len(tasks)
        /\ tasks[tslots[r].tid].clientId # tslots[r].caller
        /\ tasks[tslots[r].tid].title = "a"

\* ---- C15
C15_Step ==
    (~transportUp /\ outbox' # outbox) =>
        /\ BagCardinality(outbox') = BagCardinality(outbox) + 1
        /\ \A r \in Slots :
              Notified(r) => /\ slots'[r].status = 200
                             /\ providers' = providers
                             /\ ~Pending(slots[r].pid)
        /\ (\A r \in Slots : ~Notified(r)) =>
              /\ lastCreate' = [status |-> 201, sendFailed |-> TRUE]
              /\ \/ /\ Len(users') = Len(users) + 1
                    /\ users'[Len(users')].emailVerificationToken # 0
                    /\ Len(providers') >= Len(providers)
                 \/ /\ users' = users
                    /\ Len(providers') = Len(providers) + 1

\* C15: a send attempted while the transport throws fails no request: the approve or
\* reject is answered 200 with its transition stored, POST /providers and the local
\* POST /register are answered 201 with the row they created stored (the user with
\* its verification token, the provider), and the step makes that one attempt only.
C15_SendFailureNeverFailsRequest == [][C15_Step]_vars

\* C15, the case: a local registration answered 201 although its verification mail
\* failed, the user stored unverified; and an approve answered 200 on a stored
\* approval with the relay down.
C15_Witness ==
    /\ lastCreate = [status |-> 201, sendFailed |-> TRUE]
    /\ \E u \in 1..Len(users) : LocalAccount(users[u]) /\ ~users[u].isEmailVerified
    /\ ~transportUp
    /\ slots[1].pc = "done" /\ slots[1].status = 200 /\ slots[1].kind = "approve"

\* ---- C16
\* C16: a start whose relational storage cannot be initialised (no DATABASE_URL, or
\* a database that does not answer) ends with the in-memory implementation as the
\* active storage.
C16_FallsBackToMemory ==
    (boot.pc \in {"serving", "crashed"} /\ (~boot.databaseUrl \/ ~boot.reachable))
        => boot.storage = "memory"

\* ---- C17
\* C17: no user id is referenced by more than one provider row, whatever the
\* sequence or interleaving of POST /register, POST /register/google and POST
\* /providers requests.
C17_OneProviderPerUser ==
    \A p, q \in 1..Len(providers) :
        providers[p].userId = providers[q].userId => p = q

\* ---- C18
\* This step is a POST /providers that stored a row: a provider row was added for a
\* user that existed before.
ProviderPosted == users' = users /\ Len(providers') = Len(providers) + 1

C18_Step ==
    ProviderPosted =>
        outbox' = IF providers'[Len(providers')].idVerificationImage # NULL
                  THEN outbox (+) SetToBag({Mail(AdminEmail, "application")})
                  ELSE outbox

\* C18: a POST /providers that creates a provider with a verification image attempts
\* one notification to the hard-coded admin address; one that creates a provider
\* without an image attempts none.
C18_ApplicationMailIffImage == [][C18_Step]_vars

\* ---- C19
\* C19: every user logged in by POST /auth/firebase with a token that carries the
\* admin email has isAdmin true, whether the record was created by that request or
\* found for the uid as a non-admin.
C19_AdminEmailLogsInAdmin ==
    \A e \in established :
        (e[2] = "token" /\ FirebaseEmail(users[e[1]].firebaseUid) = AdminEmail)
            => users[e[1]].isAdmin

\* C19, the case: a record that POST /register created for the admin's uid (as a
\* non-admin) and that a federated login then found: it is admin.
C19_Witness ==
    \E u \in 1..Len(users) :
        /\ <<u, "uid">> \in established
        /\ <<u, "token">> \in established
        /\ users[u].email = AdminEmail
        /\ users[u].isAdmin

\* ---- C20
\* C20: requests with the same uid create one user record between them and every
\* one that succeeds logs in that user; a request with a missing or an invalid token
\* answers 401 and creates no user.
C20_LookupOrCreate ==
    /\ \A i, j \in 1..Len(users) :
          (users[i].password = "firebase_user" /\ users[j].password = "firebase_user"
              /\ users[i].firebaseUid = users[j].firebaseUid) => i = j
    /\ \A r \in Slots :
          (fslots[r].pc = "done" /\ fslots[r].status = 200)
              => fslots[r].user = getUserByFirebaseUid(fslots[r].uid)
    /\ \A r \in Slots :
          (fslots[r].pc = "done" /\ fslots[r].token \in {"missing", "invalid"})
              => (fslots[r].status = 401 /\ ~fslots[r].created)

\* ---- C21
ApprovalStatuses == {"pending", "approved", "rejected"}

\* C21: every provider row has approvalStatus pending, approved or rejected,
\* whatever the bodies the routes were sent.
C21_StatusInDomain ==
    \A p \in 1..Len(providers) : providers[p].approvalStatus \in ApprovalStatuses

\* C21, the case: a row whose owner's PUT (or upload) went through after the row
\* was created without an image, the status still in the domain.
C21_Witness ==
    \E p \in 1..Len(providers) :
        /\ providers[p].idVerificationImage = "img"
        /\ providers[p].submittedAt
        /\ providers[p].isVerified
        /\ providers[p].reviewedAt = 0
        /\ providers[p].approvalStatus = "pending"

\* ---- C22
C22_Step ==
    \A p \in 1..Len(providers) :
        providers[p].approvalStatus \in {"approved", "rejected"}
            => providers'[p].approvalStatus # "pending"

\* C22: no step takes an approved or a rejected provider back to pending.
C22_NeverReopened == [][C22_Step]_vars

\* C22, the case: a provider created without an image, later rejected, whose
\* owner's PUT or upload stored an image: still rejected.
C22_Witness ==
    \E p \in 1..Len(providers) :
        /\ providers[p].approvalStatus = "rejected"
        /\ providers[p].reviewedAt # 0
        /\ providers[p].idVerificationImage = "img"

\* ---- C23
RequestArrived(r) ==
    /\ qslots[r].pc \in {"idle", "done"}
    /\ qslots'[r].pc \in {"update", "done"}
    /\ qslots'[r] # qslots[r]

\* The caller is the request's client or owns the provider profile it names.
Party(caller, sid) ==
    \/ serviceRequests[sid].clientId = caller
    \/ \E p \in 1..Len(providers) :
          p = serviceRequests[sid].providerId /\ providers[p].userId = caller

C23_Step ==
    /\ \A r \in Slots :
          (RequestArrived(r) /\ qslots'[r].caller # 0
             /\ qslots'[r].sid \in 1..Len(serviceRequests)
             /\ ~Party(qslots'[r].caller, qslots'[r].sid))
          => /\ qslots'[r].pc = "done"
             /\ qslots'[r].status = 403
             /\ serviceRequests' = serviceRequests
    /\ \A t \in 1..Len(serviceRequests) :
          serviceRequests'[t] # serviceRequests[t] =>
              \E r \in Slots :
                  /\ qslots[r].pc = "update"
                  /\ qslots'[r].pc = "done"
                  /\ qslots'[r].status = 200
                  /\ qslots[r].sid = t

\* C23: a PUT /service-requests/:id of a session whose user is neither the request's
\* client nor the owner of the provider profile it names is answered 403 and changes
\* no request; a request row changes only in the write of a call that passed that
\* check.
C23_OnlyPartiesUpdate == [][C23_Step]_vars

\* C23, the case: a user who is neither party of a request was refused with 403.
C23_Witness ==
    \E r \in Slots :
        /\ qslots[r].pc = "done"
        /\ qslots[r].status = 403
        /\ qslots[r].caller # 0
        /\ qslots[r].sid \in 1..Len(serviceRequests)
        /\ ~Party(qslots[r].caller, qslots[r].sid)

\* ---- C24
\* C24: an approved provider has isVerified true and a rejected one has it false.
C24_VerifiedFollowsStatus ==
    \A p \in 1..Len(providers) :
        /\ providers[p].approvalStatus = "approved" => providers[p].isVerified
        /\ providers[p].approvalStatus = "rejected" => ~providers[p].isVerified

\* C24, the case: a provider created without an image, hence with isVerified true,
\* that an admin rejected: the flag went to false with the status.
C24_Witness ==
    \E p \in 1..Len(providers) :
        /\ providers[p].approvalStatus = "rejected"
        /\ providers[p].idVerificationImage = NULL
        /\ providers[p].submittedAt
        /\ ~providers[p].isVerified

\* ---- C25
\* The row at id is the same account before and after the step.
SameAccount(id) ==
    /\ id \in DOMAIN mem.users
    /\ id \in DOMAIN mem'.users
    /\ mem.users[id].username = mem'.users[id].username
    /\ mem.users[id].password = mem'.users[id].password
    /\ mem.users[id].firebaseUid = mem'.users[id].firebaseUid

C25_Step ==
    \A id \in DOMAIN mem.users :
        SameAccount(id) =>
            /\ (~mem.users[id].isAdmin /\ mem'.users[id].isAdmin)
                  => /\ mem'.op = "auth/firebase"
                     /\ FirebaseEmail(mem'.uid) = AdminEmail
                     /\ mem'.users[id].firebaseUid = mem'.uid
            /\ mem.users[id].isAdmin => mem'.users[id].isAdmin

\* C25: an account's isAdmin goes from false to true only in a POST /auth/firebase
\* whose token carries the admin email, and never goes back to false.
C25_AdminOnlyByFederatedLogin == [][C25_Step]_vars

\* ---- C26
C26_Step ==
    /\ mem'.currentId.users # mem.currentId.users
          => /\ mem.currentId.users \notin DOMAIN mem.users
             /\ mem'.currentId.users > mem.currentId.users
    /\ mem'.currentId.tasks # mem.currentId.tasks
          => /\ mem.currentId.tasks \notin DOMAIN mem.tasks
             /\ mem'.currentId.tasks > mem.currentId.tasks

\* C26: on MemStorage a create takes the counter's value as the new id, no row
\* holds that id yet, and the counter only grows, so an id is never used twice.
C26_CreateTakesFreshId == [][C26_Step]_vars

\* ---- C27
\* C27: no two user rows hold the same email address.
C27_EmailsUnique ==
    \A i, j \in DOMAIN mem.users :
        mem.users[i].email = mem.users[j].email => i = j

\* ---- C28
VerifyArrived(r) ==
    /\ vslots[r].pc \in {"idle", "done"}
    /\ vslots'[r].pc \in {"update", "done"}
    /\ vslots'[r] # vslots[r]

\* The token was issued to an account that is verified by now: it has been used.
Used(token) == token \in 1..Len(users) /\ users[token].isEmailVerified

C28_Step ==
    /\ \A r \in Slots :
          (VerifyArrived(r) /\ Used(vslots'[r].token))
          => /\ vslots'[r].pc = "done"
             /\ vslots'[r].status = 400
             /\ users' = users
    /\ \A r \in Slots :
          (vslots[r].pc = "update" /\ vslots'[r].pc = "done")
          => /\ vslots'[r].status = 200
             /\ users'[vslots[r].found].isEmailVerified
             /\ users'[vslots[r].found].emailVerificationToken = 0
    /\ \A u \in 1..Len(users) :
          users[u].isEmailVerified => users'[u].isEmailVerified

\* C28: a verification sets isEmailVerified and clears the token; a request that
\* arrives with a token already used is answered 400 and changes no user; a
\* verified user stays verified.
C28_TokenSingleUse == [][C28_Step]_vars

\* C28, the case: a token that verified its password account was sent again and
\* answered 400.
C28_Witness ==
    \E r \in Slots :
        /\ vslots[r].pc = "done"
        /\ vslots[r].status = 400
        /\ vslots[r].token \in 1..Len(users)
        /\ users[vslots[r].token].password = "hash"
        /\ users[vslots[r].token].isEmailVerified
        /\ users[vslots[r].token].emailVerificationToken = 0

\* ---- C29
RatingsOf(p) == {getReviewsByProvider(p)[i].rating : i \in 1..Len(getReviewsByProvider(p))}

\* C29: once the creations have finished, a provider without a review has rating 0
\* and a provider with reviews has a rating between the smallest and the largest of
\* its reviews' ratings (the stored rating is in tenths).
C29_RatingWithinReviews ==
    \A p \in 1..Len(providers) :
        NoneInFlight =>
            IF RatingsOf(p) = {}
            THEN providers[p].rating = 0
            ELSE \E lo, hi \in RatingsOf(p) :
                    /\ \A x \in RatingsOf(p) : lo <= x /\ x <= hi
                    /\ 10 * lo <= providers[p].rating
                    /\ providers[p].rating <= 10 * hi

\* C29, the case: reviews with different ratings were created and the stored rating
\* lies strictly between the smallest and the largest.
C29_Witness ==
    \E p \in 1..Len(providers) :
        /\ NoneInFlight
        /\ \E lo, hi \in RatingsOf(p) :
              /\ 10 * lo < providers[p].rating
              /\ providers[p].rating < 10 * hi

\* ---- C30
C30_Step ==
    lastGet' # lastGet =>
        /\ \A p \in lastGet'.ids :
              p \in 1..Len(providers) /\ providers[p].approvalStatus = "approved"
        /\ (lastGet'.route = "one" /\ lastGet'.arg \in 1..Len(providers)
              /\ providers[lastGet'.arg].approvalStatus # "approved")
           => (lastGet'.status = 404 /\ lastGet'.ids = {})

\* C30: GET /providers and GET /providers/category/:categoryId return approved
\* providers only, and GET /providers/:id answers 404 for a provider that is not
\* approved.
C30_OnlyApprovedPublic == [][C30_Step]_vars

\* C30, the case: the list route read a provider that is not approved and answered
\* without it.
C30_Witness ==
    /\ lastGet.route = "list"
    /\ lastGet.status = 200
    /\ \E p \in lastGet.hidden :
          /\ providers[p].approvalStatus # "approved"
          /\ p \notin lastGet.ids

====
